---- MODULE Spec2Model ----
(***************************************************************************)
(* A model of the automation engine of Auto-game-use-python:               *)
(*   - the step interpreter, src/src/task/manager.py (TaskManager);        *)
(*   - the repeat drivers and the Start/Stop buttons that call it,         *)
(*     src/src/gui/main_window.py (MainWindow.start_task / stop_task).     *)
(* Every TaskManager instance is a record of its fields; every thread that *)
(* executes run_task has a frame (pc, self, step_index, ...).              *)
(***************************************************************************)
EXTENDS Integers, Sequences, FiniteSets, TLC

(***************************************************************************)
(* Bounds of the model.                                                    *)
(***************************************************************************)
\* longest step list of a task
MaxSteps == 2
\* cap on the step handlers one run may invoke (a program may jump forever)
MaxVisits == 3
\* cap on the iterations the infinite repeat mode counts
MaxIterations == 2
\* largest score of cv2.matchTemplate, in steps of 1/MaxScore (a score of
\* MaxScore is the correlation 1.0)
MaxScore == 2
\* largest width and height of a template, in pixels
MaxTemplate == 3
\* how often the Start button is pressed: each press starts a worker thread
MaxWorkers == 2
\* largest repeat count the user enters for the manual repeat mode
MaxRepeat == 2
\* how many different frames the device shows while a click_all search runs
MaxFrames == 2
\* largest timeout of a find_and_click step, in seconds
MaxTimeout == 3

(***************************************************************************)
(* Python's optional values: None is the empty tuple, a present value v is *)
(* the one-element tuple <<v>>.                                            *)
(***************************************************************************)
None == <<>>

Some(v) == <<v>>

\* Python truthiness of an optional integer: None and 0 are both false.
Truthy(o) == o # None /\ o[1] # 0

(***************************************************************************)
(* Steps.  A step is the dict the config loader supplies; a key that is    *)
(* absent from the dict is None here.                                      *)
(***************************************************************************)
BlankStep ==
    [type |-> "wait", required |-> None, x |-> None, y |-> None,
     templates |-> <<>>, template |-> None, click_all |-> FALSE,
     continue_if_not_found |-> FALSE,
     goto_step_if_found |-> None, goto_step_if_not_found |-> None]

TemplateNames == {"a.png", "b.png"}

\* The steps the programs of the model are built from.
WaitStep == BlankStep

ClickStep == [BlankStep EXCEPT !.type = "click", !.x = Some(10), !.y = Some(20)]

\* FindAndClick(templates=["a.png","b.png"], clickAll=false, gotoIfNotFound=1)
RetryStep ==
    [BlankStep EXCEPT !.type = "find_and_click", !.templates = <<"a.png", "b.png">>,
                      !.goto_step_if_not_found = Some(1)]

StepPool ==
    { WaitStep,
      [BlankStep EXCEPT !.type = "click", !.x = Some(0)],
      [BlankStep EXCEPT !.type = "teleport", !.required = Some(FALSE)],
      RetryStep,
      [BlankStep EXCEPT !.type = "find_and_click", !.template = Some("a.png"),
                        !.required = Some(TRUE),
                        !.goto_step_if_found = Some(2),
                        !.goto_step_if_not_found = Some(0)],
      [BlankStep EXCEPT !.type = "find_and_click", !.templates = <<"b.png">>,
                        !.click_all = TRUE, !.continue_if_not_found = TRUE,
                        !.goto_step_if_found = Some(-1)],
      [BlankStep EXCEPT !.type = "notification"],
      [BlankStep EXCEPT !.type = "notification", !.required = Some(FALSE)],
      [BlankStep EXCEPT !.type = "stop_task"] }

\* the program that retries forever while its templates are not on screen
RetryProgram == <<WaitStep, ClickStep, RetryStep>>

Programs == UNION { [1..n -> StepPool] : n \in 1..MaxSteps } \cup {RetryProgram}

HasType(program, type) == \E i \in 1..Len(program) : program[i].type = type

\* step.get("required", True)
Required(step) == IF step.required = None THEN TRUE ELSE step.required[1]

(***************************************************************************)
(* The state.                                                              *)
(***************************************************************************)
\* A thread that executes run_task: in the CLI the main thread (thread 1),
\* in the GUI the worker threads that start_task creates.
Threads == 1..MaxWorkers

\* The TaskManager instances: the CLI constructs instance 1, the worker
\* thread w of the GUI constructs instance w.
Managers == 1..MaxWorkers

\* the CLI's thread
Main == 1

\* the task names a caller may pass, and those the game config defines
TaskNames == {"task", "missing"}

Tasks == {"task"}

VARIABLES
    steps,      \* game_config["tasks"]["task"]["steps"]
    managers,   \* the TaskManager instances: their fields
    pc,         \* per thread: where its run_task frame stands
    self_tm,    \* per thread: the instance its run_task frame runs on (self)
    step_index, \* per thread: the cursor of run_task (1-based)
    ok,         \* per thread: what the last handler returned
    ret,        \* per thread: what run_task returned
    visited,    \* per thread: the step indices whose handler this run invoked
    results,    \* per thread: what each handler that ended reported
    task_name,  \* per thread: the task name run_task was called with
    stopped_at, \* per thread: None, or how many handlers this run had
                \* invoked when stop() was first called on self during it
    \* MainWindow
    gui_running,        \* self.running
    task_manager,       \* self.task_manager: None or an instance
    start_button,       \* enabled (tk.NORMAL) or not
    stop_button,
    iteration_counter,  \* self.iteration_counter
    repeat_mode,        \* self.repeat_mode: "none", "manual", "infinite"
    repeat_count,       \* self.repeat_count
    ui_queue,           \* the callbacks root.after queued for the UI thread
    wpc,                \* per worker thread: where start_task.run_task stands
    mode,               \* per worker thread: its local repeat_mode
    count,              \* per worker thread: its local repeat_count
    iter,               \* per worker thread: i of the manual loop
    driver_log,         \* per worker thread: what its driver logged about the
                        \* last run_task call that returned to it
    \* ImageMatcher: the frame of a find_template / find_all_templates call
    match_result, \* result: cv2.matchTemplate's score of every top-left position
    template,   \* load_template's answer: None, or the shape <<w, h>>
    threshold,
    match_found,  \* what find_template returned
    matches,    \* what find_all_templates returned
    called,     \* which of the two were called on this frame
    \* EmulatorController
    emulator,   \* the instance: its fields connected and device_id
    adb_calls,  \* the adb commands the last call ran (subprocess.run)
    emu_ret,    \* the last call: its name and what it returned
    emu_args,   \* the arguments of the last call
    adb_out,    \* what adb answered to the last call
    \* template resolution in _step_wait_template and _step_find_and_click
    template_files,      \* the files under config/templates
    sanitized_game_name,
    step_templates,      \* template_list: the step's template references
    template_path,       \* _step_wait_template: the path it settled on
    resolved_templates,  \* valid_templates of _step_find_and_click
    resolved,            \* which of the two handlers have resolved
    \* utils.text_utils: the frame of a remove_accents / sanitize_filename call
    raw_text,  \* text, the argument: a sequence of characters
    no_accents,  \* what remove_accents returned
    sanitized,  \* what sanitize_filename returned
    text_called, \* which of the two were called on this argument
    \* MainWindow.start_task: one call of notification_callback
    cb_pc,  \* where the worker thread stands in notification_callback
    result_event,  \* threading.Event(): whether it is set
    result_value,  \* result_value[0]
    dialog,  \* where show_dialog stands on the UI thread
    dialog_outcome,  \* how show_notification_dialog ended
    elapsed,  \* seconds result_event.wait has waited
    timed_out,  \* whether result_event.wait ended on its timeout
    cb_result, \* None, or what notification_callback returned
    \* _step_find_and_click in click_all mode: one call, statement by statement
    screen,  \* the frame the device shows now
    found_on,  \* per frame and template: what find_all_templates returns
    ca_step,  \* the step
    ca_templates,  \* valid_templates: the template names whose file exists
    ca_pc,  \* where the handler stands
    screenshot,  \* None, or the frame self.emulator.screenshot() captured
    ca_index,  \* the loop index over valid_templates, then over all_matches
    all_matches,  \* the matches of the first template that has any
    ca_calls,  \* the calls made on the controller and the matcher, in order
    ca_report, \* None, or what the handler reported when it returned
    \* _step_find_and_click from its entry, and its single mode statement by statement
    fc_step,  \* the step
    fc_files,  \* the template names whose file exists
    fc_timeout,  \* step.get("timeout", 10), in seconds
    fc_appears,  \* per template: what wait_for_template returns for it
    fc_pc,  \* where the handler stands
    fc_valid,  \* valid_templates
    fc_index,  \* the loop index over valid_templates
    fc_result,  \* result: None, or the point wait_for_template returned
    fc_calls,  \* the calls made on the controller and the matcher, in order
    fc_report, \* None, or what the handler reported when it returned
    \* _step_click and _step_swipe: one call of the handler on a controller
    as_step,  \* the step
    as_pc,  \* where the handler stands
    as_calls,  \* the calls the handler made on self.emulator, in order
    as_report, \* None, or what the handler reported when it returned
    \* ImageMatcher.wait_for_template: one call
    wf_timeout,  \* the timeout argument, in seconds
    wf_now,  \* time.time() - start_time, in ticks
    wf_pc,  \* where the loop stands
    wf_log,  \* what the loop did, in order
    wf_result  \* None, or Some of what the call returned

coreVars == <<steps, managers, pc, self_tm, step_index, ok, ret, visited, results,
              task_name, stopped_at>>

guiVars == <<gui_running, task_manager, start_button, stop_button,
             iteration_counter, repeat_mode, repeat_count, ui_queue, wpc, mode,
             count, iter, driver_log>>

matcherVars == <<match_result, template, threshold, match_found, matches, called>>

\* the state of the components around the interpreter
emuVars == <<emulator, adb_calls, emu_ret, emu_args, adb_out>>

resolveVars == <<template_files, sanitized_game_name, step_templates, template_path,
                 resolved_templates, resolved>>

textVars == <<raw_text, no_accents, sanitized, text_called>>

handoffVars == <<cb_pc, result_event, result_value, dialog, dialog_outcome, elapsed,
                 timed_out, cb_result>>

clickAllVars == <<screen, found_on, ca_step, ca_templates, ca_pc, screenshot, ca_index,
                  all_matches, ca_calls, ca_report>>

findClickVars == <<fc_step, fc_files, fc_timeout, fc_appears, fc_pc, fc_valid, fc_index,
                   fc_result, fc_calls, fc_report>>

actionVars == <<as_step, as_pc, as_calls, as_report>>

waitForVars == <<wf_timeout, wf_now, wf_pc, wf_log, wf_result>>

libVars == <<matcherVars, emuVars, resolveVars, textVars, handoffVars, clickAllVars, findClickVars, actionVars, waitForVars>>

vars == <<coreVars, guiVars, libVars>>

\* the top-left positions cv2.matchTemplate scores, (x, y)
Columns == 0..2

Rows == 0..1

Positions == Columns \X Rows

\* no matcher call is in progress
IdleMatcher ==
    /\ match_result = [p \in Positions |-> 0]
    /\ template = None
    /\ threshold = 1
    /\ match_found = None
    /\ matches = <<>>
    /\ called = {}

\* EmulatorController.__init__
NewEmulator == [connected |-> FALSE, device_id |-> None]

\* no controller call was made yet
IdleEmulator ==
    /\ emulator = NewEmulator
    /\ adb_calls = <<>>
    /\ emu_ret = [op |-> "__init__", ok |-> TRUE, value |-> None]
    /\ emu_args = <<>>
    /\ adb_out = [status |-> "ok", listing |-> <<>>, stdout |-> "", png |-> FALSE]

\* no handler has resolved a template
IdleResolve ==
    /\ template_files = {}
    /\ sanitized_game_name = ""
    /\ step_templates = <<>>
    /\ template_path = None
    /\ resolved_templates = <<>>
    /\ resolved = {}

\* no text utility was called
IdleText ==
    /\ raw_text = <<>>
    /\ no_accents = <<>>
    /\ sanitized = <<>>
    /\ text_called = {}

\* notification_callback was not called
IdleHandoff ==
    /\ cb_pc = "idle"
    /\ result_event = FALSE
    /\ result_value = TRUE
    /\ dialog = "none"
    /\ dialog_outcome = "pending"
    /\ elapsed = 0
    /\ timed_out = FALSE
    /\ cb_result = None

\* the frames the device shows
Frames == 1..MaxFrames

\* no click_all search is in progress
IdleClickAll ==
    /\ screen = 1
    /\ found_on = [f \in Frames |-> [n \in TemplateNames |-> <<>>]]
    /\ ca_step = BlankStep
    /\ ca_templates = <<>>
    /\ ca_pc = "idle"
    /\ screenshot = None
    /\ ca_index = 1
    /\ all_matches = <<>>
    /\ ca_calls = <<>>
    /\ ca_report = None

\* _step_find_and_click was not called
IdleFindAndClick ==
    /\ fc_step = BlankStep
    /\ fc_files = {}
    /\ fc_timeout = 0
    /\ fc_appears = [n \in TemplateNames |-> None]
    /\ fc_pc = "idle"
    /\ fc_valid = <<>>
    /\ fc_index = 1
    /\ fc_result = None
    /\ fc_calls = <<>>
    /\ fc_report = None

\* a click or swipe step: the keys the two handlers read, None when absent
NoActionStep ==
    [type |-> "click", x |-> None, y |-> None, x1 |-> None, y1 |-> None,
     x2 |-> None, y2 |-> None]

\* no click or swipe handler was called
IdleAction ==
    /\ as_step = NoActionStep
    /\ as_pc = "idle"
    /\ as_calls = <<>>
    /\ as_report = None

\* wait_for_template was not called
IdleWaitFor ==
    /\ wf_timeout = 0
    /\ wf_now = 0
    /\ wf_pc = "idle"
    /\ wf_log = <<>>
    /\ wf_result = None

\* TaskManager.__init__
NewManager(callback) ==
    [running |-> FALSE, current_task_name |-> None, next_step_index |-> None,
     notification_callback |-> callback, user_requested_stop |-> FALSE,
     force_stop_task |-> FALSE]

InitFrames ==
    /\ pc = [t \in Threads |-> "idle"]
    /\ self_tm = [t \in Threads |-> t]
    /\ step_index = [t \in Threads |-> 1]
    /\ ok = [t \in Threads |-> TRUE]
    /\ ret = [t \in Threads |-> TRUE]
    /\ visited = [t \in Threads |-> <<>>]
    /\ results = [t \in Threads |-> <<>>]
    /\ task_name = [t \in Threads |-> None]
    /\ stopped_at = [t \in Threads |-> None]

\* MainWindow.__init__
InitGui ==
    /\ gui_running = FALSE
    /\ task_manager = None
    /\ start_button = TRUE
    /\ stop_button = FALSE
    /\ iteration_counter = 0
    /\ ui_queue = <<>>
    /\ wpc = [w \in Threads |-> "unborn"]
    /\ mode = [w \in Threads |-> "none"]
    /\ count = [w \in Threads |-> 1]
    /\ iter = [w \in Threads |-> 0]
    /\ driver_log = [w \in Threads |-> "none"]

\* main.py: one TaskManager, the task of the command line
Init ==
    /\ steps \in Programs
    \* the CLI constructs the instance without a notification callback, the
    \* GUI with one: that matters to the programs that notify
    /\ managers \in [Managers -> {NewManager(cb) : cb \in BOOLEAN}]
    /\ \A m \in Managers :
          IF m = Main
          THEN managers[m].notification_callback \/ HasType(steps, "notification")
          ELSE managers[m].notification_callback
    /\ InitFrames
    /\ InitGui
    /\ repeat_mode = "none"
    /\ repeat_count = 1
    /\ IdleMatcher
    /\ IdleEmulator
    /\ IdleResolve
    /\ IdleText
    /\ IdleHandoff
    /\ IdleClickAll
    /\ IdleFindAndClick
    /\ IdleAction
    /\ IdleWaitFor

(***************************************************************************)
(* The step handlers.  A handler takes the instance (self), the step and   *)
(* what the world answers while it runs (env), and yields the instance     *)
(* after it, its boolean result (ok), whether it raised instead of         *)
(* returning, and the line it logs last (event).                           *)
(***************************************************************************)
Report(self, result, event) ==
    [self |-> self, ok |-> result, raised |-> FALSE, event |-> event]

\* what the world may answer to a step: which template files exist, whether
\* the capture succeeds, which templates are on screen, what the user (or
\* the dialog) answers to a notification
Envs ==
    [exists : SUBSET TemplateNames, shot : BOOLEAN,
     present : SUBSET TemplateNames, answer : {"continue", "stop", "raise"}]

QuietEnv == [exists |-> {}, shot |-> TRUE, present |-> {}, answer |-> "continue"]

\* the call the handler makes (the controller, the matcher, time.sleep, the
\* callback) raises
FaultEnv == [QuietEnv EXCEPT !.answer = "raise"]

\* the answers that make a difference to a step of this type
EnvsOf(step) ==
    CASE step.type = "find_and_click" ->
           {e \in Envs : /\ e.answer \in {"continue", "raise"}
                         /\ e.answer = "raise" => e.present = {}
                         /\ e.present \subseteq e.exists
                         \* only the click_all mode captures the screen itself
                         /\ ~step.click_all => e.shot}
      [] step.type = "notification" ->
           {e \in Envs : e.exists = {} /\ e.present = {} /\ e.shot}
      [] step.type \in {"click", "wait"} -> {QuietEnv, FaultEnv}
      [] OTHER -> {QuietEnv}

\* the handler does not return: an exception leaves it
Raise(self) == [self |-> self, ok |-> FALSE, raised |-> TRUE, event |-> "raised"]

\* a _step_click that takes the coordinate 0 for a missing one
StepClickFalsy(self, step, env) ==
    IF ~Truthy(step.x) \/ ~Truthy(step.y)
    THEN Report(self, FALSE, "Click step missing coordinates")
    ELSE IF env.answer = "raise"
    THEN Raise(self)
    ELSE Report(self, TRUE, "click")

\* _step_click
StepClick(self, step, env) ==
    IF step.x = None \/ step.y = None
    THEN Report(self, FALSE, "Click step missing coordinates")
    ELSE IF env.answer = "raise"
    THEN Raise(self)
    ELSE Report(self, TRUE, "click")

\* _step_wait
StepWait(self, step, env) ==
    IF env.answer = "raise" THEN Raise(self) ELSE Report(self, TRUE, "wait")

\* _step_notification that forgets user_requested_stop on a stop answer
StepNotificationNoFlag(self, step, env) ==
    IF self.notification_callback
    THEN CASE env.answer = "continue" -> Report(self, TRUE, "continue")
           [] env.answer = "stop" ->
                Report([self EXCEPT !.running = FALSE], FALSE, "stop")
           [] OTHER -> [Report(self, FALSE, "raised") EXCEPT !.raised = TRUE]
    ELSE Report(self, TRUE, "Notification callback not set")

\* _step_notification
StepNotification(self, step, env) ==
    IF self.notification_callback
    THEN CASE env.answer = "continue" -> Report(self, TRUE, "continue")
           [] env.answer = "stop" ->
                Report([self EXCEPT !.running = FALSE, !.user_requested_stop = TRUE],
                       FALSE, "stop")
           [] OTHER -> [Report(self, FALSE, "raised") EXCEPT !.raised = TRUE]
    ELSE Report(self, TRUE, "Notification callback not set")

\* _step_stop_task that sets force_stop_task and leaves running alone
StepStopTaskKeepsRunning(self, step) ==
    Report([self EXCEPT !.force_stop_task = TRUE], TRUE, "stop_task")

\* _step_stop_task
StepStopTask(self, step) ==
    Report([self EXCEPT !.force_stop_task = TRUE, !.running = FALSE], TRUE, "stop_task")

\* a not-found branch that schedules the jump and reports failure
NotFoundBranchJumpsAndFails(self, step, event) ==
    IF Truthy(step.goto_step_if_not_found)
    THEN Report([self EXCEPT !.next_step_index = step.goto_step_if_not_found],
                FALSE, event)
    ELSE IF step.continue_if_not_found
         THEN Report(self, TRUE, event)
         ELSE Report(self, FALSE, event)

\* the not-found branch shared by the three places of _step_find_and_click
NotFoundBranch(self, step, event) ==
    IF Truthy(step.goto_step_if_not_found)
    THEN Report([self EXCEPT !.next_step_index = step.goto_step_if_not_found],
                TRUE, event)
    ELSE IF step.continue_if_not_found
         THEN Report(self, TRUE, event)
         ELSE Report(self, FALSE, event)

\* the found branch of _step_find_and_click, after the taps
FoundBranch(self, step) ==
    IF Truthy(step.goto_step_if_found)
    THEN Report([self EXCEPT !.next_step_index = step.goto_step_if_found], TRUE, "found")
    ELSE Report(self, TRUE, "found")

\* _step_find_and_click
StepFindAndClick(self, step, env) ==
    LET template_list ==
            IF step.templates # <<>> THEN step.templates
            ELSE IF step.template # None THEN <<step.template[1]>> ELSE <<>>
        valid_templates == SelectSeq(template_list, LAMBDA n : n \in env.exists)
        found == \E i \in 1..Len(valid_templates) : valid_templates[i] \in env.present
    IN  IF template_list = <<>>
        THEN Report(self, FALSE, "Find and click step missing template path")
        ELSE IF valid_templates = <<>>
        THEN NotFoundBranch(self, step, "no template file")
        ELSE IF step.click_all /\ ~env.shot
        THEN Report(self, FALSE, "Failed to take screenshot")
        ELSE IF env.answer = "raise"
        THEN Raise(self)
        ELSE IF found
        THEN FoundBranch(self, step)
        ELSE NotFoundBranch(self, step, "not found")

\* _execute_step: the dispatch on the step's type, for the types the steps of
\* StepPool have; any other type is one the dispatch does not know
ExecuteStepOp(self, step, env) ==
    CASE step.type = "click" -> StepClick(self, step, env)
      [] step.type = "wait" -> StepWait(self, step, env)
      [] step.type = "find_and_click" -> StepFindAndClick(self, step, env)
      [] step.type = "notification" -> StepNotification(self, step, env)
      [] step.type = "stop_task" -> StepStopTask(self, step)
      [] OTHER -> Report(self, FALSE, "Unknown step type")

(***************************************************************************)
(* run_task, one action per stretch of it that another thread may          *)
(* interleave with.                                                        *)
(***************************************************************************)
\* a flag reset that also clears user_requested_stop
ResetFlagsClearsUserStop(self) ==
    [self EXCEPT !.running = TRUE, !.force_stop_task = FALSE,
                 !.user_requested_stop = FALSE]

\* a flag reset that leaves running as stop() left it
ResetFlagsHonorsStop(self) == [self EXCEPT !.force_stop_task = FALSE]

\* a flag reset that leaves force_stop_task alone
ResetFlagsKeepsForceStop(self) == [self EXCEPT !.running = TRUE]

\* the flag reset of run_task
ResetFlags(self) == [self EXCEPT !.running = TRUE, !.force_stop_task = FALSE]

\* a loop that leaves next_step_index as the last handler set it
KeepNextStepIndex(self) == self

\* self.next_step_index = None, before the handler is dispatched
ResetNextStepIndex(self) == [self EXCEPT !.next_step_index = None]

\* a finally clause that sets running
FinallySetsRunning(self) == [self EXCEPT !.running = TRUE]

\* a finally clause that leaves running as it is
FinallyKeepsRunning(self) == self

\* the finally clause of run_task
Finally(self) == [self EXCEPT !.running = FALSE]

\* a jump check that takes the last step for out of range
NextCursorOffByOne(cursor, next_step_index, n) ==
    IF next_step_index # None
    THEN IF 1 <= next_step_index[1] /\ next_step_index[1] < n
         THEN next_step_index[1]
         ELSE cursor + 1
    ELSE cursor + 1

\* a jump check whose normal flow forgets to advance the cursor
NextCursorNoAdvance(cursor, next_step_index, n) ==
    IF next_step_index # None
    THEN IF 1 <= next_step_index[1] /\ next_step_index[1] <= n
         THEN next_step_index[1]
         ELSE cursor + 1
    ELSE cursor

\* the cursor after a step that did not end the run
NextCursor(cursor, next_step_index, n) ==
    IF next_step_index # None
    THEN IF 1 <= next_step_index[1] /\ next_step_index[1] <= n
         THEN next_step_index[1]
         ELSE cursor + 1
    ELSE cursor + 1

\* a failure check that lets every failure pass
AbortsNever(result, step) == FALSE

\* a failure check that ignores the step's required key
AbortsOnAnyFailure(result, step) == ~result

\* whether a step's failure ends the run
Aborts(result, step) == ~result /\ Required(step)

\* run_task returns value: the finally clause runs on the way out
Return(t, value) ==
    /\ pc' = [pc EXCEPT ![t] = "done"]
    /\ ret' = [ret EXCEPT ![t] = value]
    /\ managers' = [managers EXCEPT ![self_tm[t]] = Finally(@)]

\* run_task is called on instance m: the task lookup, up to the flag reset
Enter(t, m, name) ==
    /\ self_tm' = [self_tm EXCEPT ![t] = m]
    /\ task_name' = [task_name EXCEPT ![t] = Some(name)]
    /\ visited' = [visited EXCEPT ![t] = <<>>]
    /\ results' = [results EXCEPT ![t] = <<>>]
    /\ stopped_at' = [stopped_at EXCEPT ![t] = None]
    /\ IF name \notin Tasks
       THEN /\ pc' = [pc EXCEPT ![t] = "done"]
            /\ ret' = [ret EXCEPT ![t] = FALSE]
            /\ UNCHANGED managers
       ELSE /\ pc' = [pc EXCEPT ![t] = "entered"]
            /\ managers' = [managers EXCEPT ![m].current_task_name = Some(name)]
            /\ UNCHANGED ret
    /\ UNCHANGED <<steps, step_index, ok>>

\* a caller calls run_task
RunTask(t) ==
    /\ pc[t] \in {"idle", "done"}
    /\ \E name \in TaskNames : Enter(t, Main, name)
    /\ UNCHANGED guiVars
    /\ UNCHANGED libVars

\* the flag reset and the start of the loop
Reset(t) ==
    /\ pc[t] = "entered"
    /\ managers' = [managers EXCEPT ![self_tm[t]] = ResetFlags(@)]
    /\ step_index' = [step_index EXCEPT ![t] = 1]
    /\ pc' = [pc EXCEPT ![t] = "loop"]
    /\ UNCHANGED <<steps, self_tm, ok, ret, visited, results, task_name, stopped_at,
                   guiVars>>
    /\ UNCHANGED libVars

\* the loop test, the running test, and the dispatch of the step's handler
LoopTop(t) ==
    /\ pc[t] = "loop"
    /\ IF step_index[t] > Len(steps) \/ ~managers[self_tm[t]].running
       THEN /\ Return(t, TRUE)
            /\ UNCHANGED visited
       ELSE /\ Len(visited[t]) < MaxVisits
            /\ managers' = [managers EXCEPT ![self_tm[t]] = ResetNextStepIndex(@)]
            /\ visited' = [visited EXCEPT ![t] = Append(@, step_index[t])]
            /\ pc' = [pc EXCEPT ![t] = "exec"]
            /\ UNCHANGED ret
    /\ UNCHANGED <<steps, self_tm, step_index, ok, results, task_name,
                   stopped_at, guiVars>>
    /\ UNCHANGED libVars

\* the handler runs to its end
ExecuteStep(t) ==
    /\ pc[t] = "exec"
    /\ \E env \in EnvsOf(steps[step_index[t]]) :
         LET r == ExecuteStepOp(managers[self_tm[t]], steps[step_index[t]], env)
         IN  /\ results' = [results EXCEPT ![t] =
                    Append(@, [ok |-> r.ok, raised |-> r.raised, event |-> r.event])]
             /\ IF r.raised
                THEN /\ pc' = [pc EXCEPT ![t] = "done"]
                     /\ ret' = [ret EXCEPT ![t] = FALSE]
                     /\ managers' = [managers EXCEPT ![self_tm[t]] = Finally(r.self)]
                     /\ UNCHANGED ok
                ELSE /\ pc' = [pc EXCEPT ![t] = "returned"]
                     /\ ok' = [ok EXCEPT ![t] = r.ok]
                     /\ managers' = [managers EXCEPT ![self_tm[t]] = r.self]
                     /\ UNCHANGED ret
    /\ UNCHANGED <<steps, self_tm, step_index, visited, task_name, stopped_at,
                   guiVars>>
    /\ UNCHANGED libVars

\* the handler's result and the jump check
AfterStep(t) ==
    /\ pc[t] = "returned"
    /\ IF Aborts(ok[t], steps[step_index[t]])
       THEN /\ Return(t, FALSE)
            /\ UNCHANGED step_index
       ELSE /\ step_index' = [step_index EXCEPT ![t] =
                  NextCursor(@, managers[self_tm[t]].next_step_index, Len(steps))]
            /\ pc' = [pc EXCEPT ![t] = "loop"]
            /\ UNCHANGED <<managers, ret>>
    /\ UNCHANGED <<steps, self_tm, ok, visited, results, task_name, stopped_at,
                   guiVars>>
    /\ UNCHANGED libVars

\* TaskManager.stop, called from another thread
StopOp(self) == [self EXCEPT !.running = FALSE]

Stop(m) ==
    /\ managers' = [managers EXCEPT ![m] = StopOp(@)]
    /\ stopped_at' = [t \in Threads |->
          IF stopped_at[t] = None /\ self_tm[t] = m /\ pc[t] \notin {"idle", "done"}
          THEN Some(Len(visited[t]))
          ELSE stopped_at[t]]
    /\ UNCHANGED <<steps, pc, self_tm, step_index, ok, ret, visited, results, task_name>>

\* another thread calls stop() on the CLI's instance
StopCall ==
    /\ Stop(Main)
    /\ UNCHANGED guiVars
    /\ UNCHANGED libVars

Next ==
    \/ RunTask(Main)
    \/ Reset(Main)
    \/ LoopTop(Main)
    \/ ExecuteStep(Main)
    \/ AfterStep(Main)
    \/ StopCall

Spec == Init /\ [][Next]_vars

(***************************************************************************)
(* C29.  next_step_index is None when a handler is dispatched, so a jump   *)
(* that is applied after a step was scheduled by the handler of that step  *)
(* in that visit: what an earlier step or an earlier run scheduled does    *)
(* not redirect a later step.                                              *)
(***************************************************************************)
C29_JumpIsTheStepsOwn ==
    LET self == managers[self_tm[Main]]
        step == steps[step_index[Main]]
    IN  /\ pc[Main] = "exec" => self.next_step_index = None
        /\ (pc[Main] = "returned" /\ self.next_step_index # None) =>
               /\ step.type = "find_and_click"
               /\ self.next_step_index
                     \in {step.goto_step_if_found, step.goto_step_if_not_found}

\* a find_and_click scheduled a jump, the run went where it pointed, and the
\* step there has returned with no jump pending
C29_Witness ==
    /\ pc[Main] = "returned"
    /\ Len(visited[Main]) >= 2
    /\ LET before == steps[visited[Main][Len(visited[Main]) - 1]]
       IN  /\ before.type = "find_and_click"
           /\ before.goto_step_if_not_found = Some(step_index[Main])
           /\ results[Main][Len(results[Main]) - 1].event \in {"not found", "no template file"}
    /\ steps[step_index[Main]].type # "find_and_click"
    /\ managers[self_tm[Main]].next_step_index = None

(***************************************************************************)
(* The GUI: the Start and Stop buttons (UI thread) and the worker thread   *)
(* that every Start creates, with its repeat driver.                       *)
(***************************************************************************)
\* the programs the GUI runs here
GuiPrograms ==
    {p \in Programs : Len(p) = 1 /\ p[1].type \in {"wait", "notification", "stop_task"}}

RepeatModes == {"none", "manual", "infinite"}

InitGuiSpec ==
    /\ steps \in GuiPrograms
    /\ managers = [m \in Managers |-> NewManager(TRUE)]
    /\ InitFrames
    /\ InitGui
    /\ repeat_mode \in RepeatModes
    /\ repeat_count \in 1..MaxRepeat
    /\ IdleMatcher
    /\ IdleEmulator
    /\ IdleResolve
    /\ IdleText
    /\ IdleHandoff
    /\ IdleClickAll
    /\ IdleFindAndClick
    /\ IdleAction
    /\ IdleWaitFor

\* start_task, on the UI thread: the Start button is its only caller
StartTask(w) ==
    /\ start_button
    /\ wpc[w] = "unborn"
    /\ \A v \in Threads : v < w => wpc[v] # "unborn"
    /\ start_button' = FALSE
    /\ stop_button' = TRUE
    /\ iteration_counter' =
          IF repeat_mode # "infinite" \/ ~gui_running THEN 0 ELSE iteration_counter
    /\ gui_running' = TRUE
    /\ wpc' = [wpc EXCEPT ![w] = "setup"]
    /\ UNCHANGED <<coreVars, task_manager, repeat_mode, repeat_count, ui_queue,
                   mode, count, iter>>
    /\ UNCHANGED <<driver_log, libVars>>

\* stop_task, on the UI thread: the Stop button is its only caller
StopTask ==
    /\ stop_button
    /\ IF task_manager # None
       THEN Stop(task_manager[1])
       ELSE UNCHANGED coreVars
    /\ gui_running' = FALSE
    /\ start_button' = TRUE
    /\ stop_button' = FALSE
    /\ UNCHANGED <<task_manager, iteration_counter, repeat_mode, repeat_count,
                   ui_queue, wpc, mode, count, iter>>
    /\ UNCHANGED <<driver_log, libVars>>

\* the UI thread runs the next callback that root.after queued
UiAfter ==
    /\ ui_queue # <<>>
    /\ ui_queue' = Tail(ui_queue)
    /\ IF Head(ui_queue) = "start_normal"
       THEN start_button' = TRUE /\ UNCHANGED stop_button
       ELSE stop_button' = FALSE /\ UNCHANGED start_button
    /\ UNCHANGED <<coreVars, gui_running, task_manager, iteration_counter,
                   repeat_mode, repeat_count, wpc, mode, count, iter>>
    /\ UNCHANGED <<driver_log, libVars>>

\* where the driver of a repeat mode starts
DriverTop(repeat) ==
    CASE repeat = "none" -> "once"
      [] repeat = "manual" -> "manual_top"
      [] OTHER -> "infinite_top"

\* the worker loads the config, connects, and constructs its TaskManager;
\* when the config, adb or the emulator is missing it gives up
WorkerSetup(w) ==
    /\ wpc[w] = "setup"
    /\ \/ /\ wpc' = [wpc EXCEPT ![w] = "finally"]
          /\ UNCHANGED <<managers, task_manager, mode, count, iter>>
       \/ /\ managers' = [managers EXCEPT ![w] = NewManager(TRUE)]
          /\ task_manager' = Some(w)
          /\ mode' = [mode EXCEPT ![w] = repeat_mode]
          /\ count' = [count EXCEPT ![w] = IF repeat_mode = "manual" THEN repeat_count ELSE 1]
          /\ iter' = [iter EXCEPT ![w] = 0]
          /\ wpc' = [wpc EXCEPT ![w] = DriverTop(repeat_mode)]
    /\ UNCHANGED <<steps, pc, self_tm, step_index, ok, ret, visited, results,
                   task_name, stopped_at, gui_running, start_button, stop_button,
                   iteration_counter, repeat_mode, repeat_count, ui_queue>>
    /\ UNCHANGED <<driver_log, libVars>>

\* the driver calls self.task_manager.run_task(task_name)
DriverCall(w, next) ==
    /\ Enter(w, task_manager[1], "task")
    /\ wpc' = [wpc EXCEPT ![w] = next]

\* whether the driver, after a run, stops for a notification's stop
UserStopped == managers[task_manager[1]].user_requested_stop

\* what the driver logs after a call: the user's stop from a notification
\* ("Người dùng đã chọn dừng từ thông báo"), or success ("✓ ...") or failure
\* ("✗ ... thất bại") by what run_task returned
DriverReport(w) ==
    IF UserStopped THEN "user_stop"
    ELSE IF ret[w] THEN "success"
    ELSE "failed"

\* repeat mode "none": the one call
RunOnce(w) ==
    /\ wpc[w] = "once"
    /\ DriverCall(w, "once_run")
    /\ UNCHANGED <<gui_running, task_manager, start_button, stop_button,
                   iteration_counter, repeat_mode, repeat_count, ui_queue, mode,
                   count, iter>>
    /\ UNCHANGED <<driver_log, libVars>>

\* repeat mode "none": after the call
AfterOnce(w) ==
    /\ wpc[w] = "once_run"
    /\ pc[w] = "done"
    /\ driver_log' = [driver_log EXCEPT ![w] = DriverReport(w)]
    /\ gui_running' = IF UserStopped THEN FALSE ELSE gui_running
    /\ wpc' = [wpc EXCEPT ![w] = "finally"]
    /\ UNCHANGED <<coreVars, task_manager, start_button, stop_button,
                   iteration_counter, repeat_mode, repeat_count, ui_queue, mode,
                   count, iter>>
    /\ UNCHANGED libVars

\* repeat mode "manual": the head of the for loop, up to the call
ManualTop(w) ==
    /\ wpc[w] = "manual_top"
    /\ IF iter[w] >= count[w] \/ ~gui_running
       THEN /\ wpc' = [wpc EXCEPT ![w] = "finally"]
            /\ UNCHANGED coreVars
       ELSE DriverCall(w, "manual_run")
    /\ UNCHANGED <<gui_running, task_manager, start_button, stop_button,
                   iteration_counter, repeat_mode, repeat_count, ui_queue, mode,
                   count, iter>>
    /\ UNCHANGED <<driver_log, libVars>>

\* repeat mode "manual": after the call
AfterManual(w) ==
    /\ wpc[w] = "manual_run"
    /\ pc[w] = "done"
    /\ driver_log' = [driver_log EXCEPT ![w] = DriverReport(w)]
    /\ IF UserStopped
       THEN /\ gui_running' = FALSE
            /\ wpc' = [wpc EXCEPT ![w] = "finally"]
            /\ UNCHANGED iter
       ELSE /\ iter' = [iter EXCEPT ![w] = @ + 1]
            /\ wpc' = [wpc EXCEPT ![w] = "manual_top"]
            /\ UNCHANGED gui_running
    /\ UNCHANGED <<coreVars, task_manager, start_button, stop_button,
                   iteration_counter, repeat_mode, repeat_count, ui_queue, mode,
                   count>>
    /\ UNCHANGED libVars

\* repeat mode "infinite": the head of the while loop, up to the call
InfiniteTop(w) ==
    /\ wpc[w] = "infinite_top"
    /\ IF ~gui_running
       THEN /\ wpc' = [wpc EXCEPT ![w] = "finally"]
            /\ UNCHANGED <<coreVars, iteration_counter>>
       ELSE /\ iteration_counter < MaxIterations
            /\ iteration_counter' = iteration_counter + 1
            /\ DriverCall(w, "infinite_run")
    /\ UNCHANGED <<gui_running, task_manager, start_button, stop_button,
                   repeat_mode, repeat_count, ui_queue, mode, count, iter>>
    /\ UNCHANGED <<driver_log, libVars>>

\* repeat mode "infinite": after the call
AfterInfinite(w) ==
    /\ wpc[w] = "infinite_run"
    /\ pc[w] = "done"
    /\ driver_log' = [driver_log EXCEPT ![w] = DriverReport(w)]
    /\ IF UserStopped
       THEN /\ gui_running' = FALSE
            /\ wpc' = [wpc EXCEPT ![w] = "finally"]
       ELSE /\ wpc' = [wpc EXCEPT ![w] = "infinite_top"]
            /\ UNCHANGED gui_running
    /\ UNCHANGED <<coreVars, task_manager, start_button, stop_button,
                   iteration_counter, repeat_mode, repeat_count, ui_queue, mode,
                   count, iter>>
    /\ UNCHANGED libVars

\* the finally clause of the worker
WorkerFinally(w) ==
    /\ wpc[w] = "finally"
    /\ ui_queue' = ui_queue \o <<"start_normal", "stop_disabled">>
    /\ gui_running' = FALSE
    /\ wpc' = [wpc EXCEPT ![w] = "finished"]
    /\ UNCHANGED <<coreVars, task_manager, start_button, stop_button,
                   iteration_counter, repeat_mode, repeat_count, mode, count, iter>>
    /\ UNCHANGED <<driver_log, libVars>>

NextGui ==
    \/ \E w \in Threads : StartTask(w)
    \/ StopTask
    \/ UiAfter
    \/ \E w \in Threads : WorkerSetup(w)
    \/ \E w \in Threads : RunOnce(w)
    \/ \E w \in Threads : AfterOnce(w)
    \/ \E w \in Threads : ManualTop(w)
    \/ \E w \in Threads : AfterManual(w)
    \/ \E w \in Threads : InfiniteTop(w)
    \/ \E w \in Threads : AfterInfinite(w)
    \/ \E w \in Threads : WorkerFinally(w)
    \/ \E w \in Threads : Reset(w)
    \/ \E w \in Threads : LoopTop(w)
    \/ \E w \in Threads : ExecuteStep(w)
    \/ \E w \in Threads : AfterStep(w)

SpecGui == InitGuiSpec /\ [][NextGui]_vars

(***************************************************************************)
(* What the claims speak of.                                               *)
(***************************************************************************)
\* thread t is inside run_task
InRun(t) == pc[t] \in {"entered", "loop", "exec", "returned"}

\* the handlers of this run that have ended: the first Len(results[t]) visits
Ended(t) == 1..Len(results[t])

\* the step of the i-th handler this run invoked
VisitedStep(t, i) == steps[visited[t][i]]

\* the handler invoked last has ended; its step, and what it reported
LastEnded(t) == visited[t] # <<>> /\ Len(results[t]) = Len(visited[t])

LastStep(t) == VisitedStep(t, Len(visited[t]))

LastResult(t) == results[t][Len(results[t])]

\* the i-th handler of this run failed: it returned False
Failed(t, i) == ~results[t][i].ok /\ ~results[t][i].raised

(***************************************************************************)
(* C1.  When a step's handler returns failure and the step is required     *)
(* (key absent or true), run_task returns False at once: that handler is   *)
(* the last one the run invokes.  When the step has required=false, the    *)
(* failure does not make run_task return: the cursor advances by one, and  *)
(* if the run ends before another step runs it does not report failure.    *)
(***************************************************************************)
C1_RequiredFailureEndsRun ==
    \A t \in Threads : \A i \in Ended(t) :
        Failed(t, i) =>
            IF Required(VisitedStep(t, i))
            THEN /\ i = Len(visited[t])
                 /\ pc[t] \in {"returned", "done"}
                 /\ pc[t] = "done" => ret[t] = FALSE
            ELSE \/ i < Len(visited[t])
                 \/ /\ pc[t] \in {"returned", "loop", "done"}
                    /\ pc[t] # "returned" => step_index[t] = visited[t][i] + 1
                    /\ pc[t] = "done" => ret[t] = TRUE

\* a required step failed at step 1 of a longer program, and the run is over
C1_Witness ==
    \E t \in Threads :
        /\ pc[t] = "done" /\ ret[t] = FALSE
        /\ visited[t] = <<1>> /\ Len(steps) > 1
        /\ LastEnded(t) /\ Failed(t, 1) /\ Required(steps[1])

(***************************************************************************)
(* C2.  Once the handler of a stop_task step has run, no other handler is  *)
(* invoked in that run, running is false (so the next loop test leaves the *)
(* loop), and when run_task has returned it returned True with             *)
(* force_stop_task still set.                                              *)
(***************************************************************************)
C2_StopTaskEndsRun ==
    \A t \in Threads : \A i \in Ended(t) :
        VisitedStep(t, i).type = "stop_task" =>
            /\ i = Len(visited[t])
            /\ pc[t] \in {"returned", "loop", "done"}
            /\ ~managers[self_tm[t]].running
            /\ pc[t] = "done" =>
                  ret[t] = TRUE /\ managers[self_tm[t]].force_stop_task

\* stop_task ran as step 1 of a longer program, and the run is over
C2_Witness ==
    \E t \in Threads :
        /\ pc[t] = "done" /\ visited[t] = <<1>> /\ Len(steps) > 1
        /\ steps[1].type = "stop_task"
        /\ ret[t] = TRUE /\ managers[self_tm[t]].force_stop_task

(***************************************************************************)
(* C3.  A repeat driver (manual N times, infinite) that gets back a run in *)
(* which a stop_task step ran starts no further run_task call.             *)
(***************************************************************************)
StopTaskRan(t) == \E i \in Ended(t) : VisitedStep(t, i).type = "stop_task"

C3_DriverHonorsForceStop ==
    [][\A w \in Threads :
          (mode[w] \in {"manual", "infinite"} /\ pc[w] = "done" /\ StopTaskRan(w))
              => ~InRun(w)']_vars

(***************************************************************************)
(* C4.  When stop() is called while run_task executes, the run starts no   *)
(* step handler after the call: the handlers it has invoked when it ends   *)
(* are those it had invoked when stop() was called.                        *)
(***************************************************************************)
C4_StopHaltsAtNextBoundary ==
    \A t \in Threads :
        stopped_at[t] # None => Len(visited[t]) = stopped_at[t][1]

(***************************************************************************)
(* C5.  After a step that did not end the run, the cursor is the pending   *)
(* jump when that is set and within 1..len(steps); in every other case     *)
(* (no jump, or a jump out of range) it is the step's index plus one, and  *)
(* the run goes on.                                                        *)
(***************************************************************************)
C5_JumpOrAdvance ==
    \A t \in Threads :
        (pc[t] = "loop" /\ LastEnded(t)) =>
            LET jump == managers[self_tm[t]].next_step_index
                k == visited[t][Len(visited[t])]
            IN  IF jump # None /\ jump[1] \in 1..Len(steps)
                THEN step_index[t] = jump[1]
                ELSE step_index[t] = k + 1

\* a step scheduled a jump out of range and the cursor advanced by one
C5_Witness ==
    \E t \in Threads :
        /\ pc[t] = "loop" /\ LastEnded(t)
        /\ managers[self_tm[t]].next_step_index # None
        /\ managers[self_tm[t]].next_step_index[1] \notin 1..Len(steps)
        /\ step_index[t] = visited[t][Len(visited[t])] + 1

(***************************************************************************)
(* C6.  Whenever find_and_click ends not-found (in either mode) and        *)
(* goto_step_if_not_found is set, to any value, 0 included, the handler    *)
(* schedules that jump and returns True.                                   *)
(***************************************************************************)
C6_NotFoundJumpScheduled ==
    \A t \in Threads :
        ( /\ pc[t] = "returned"
          /\ LastStep(t).type = "find_and_click"
          /\ LastResult(t).event = "not found"
          /\ LastStep(t).goto_step_if_not_found # None )
        => /\ ok[t]
           /\ managers[self_tm[t]].next_step_index = LastStep(t).goto_step_if_not_found

Declined(t, i) == results[t][i].event = "stop"

C8_DeclinedRunFails ==
    \A t \in Threads : \A i \in Ended(t) :
        (Declined(t, i) /\ pc[t] = "done") =>
            /\ ret[t] = FALSE
            /\ ~managers[self_tm[t]].running
            /\ managers[self_tm[t]].user_requested_stop

(***************************************************************************)
(* C8, amended.  When the notification callback returns False, the handler *)
(* returns failure, no other handler is invoked in that run, running is    *)
(* false and user_requested_stop is set; run_task returns False when the   *)
(* step is required and True when it has required=false.  No other step    *)
(* sets user_requested_stop.                                               *)
(***************************************************************************)
C8_DeclinedRunHalts ==
    /\ [](\A t \in Threads : \A i \in Ended(t) :
            Declined(t, i) =>
                /\ Failed(t, i)
                /\ i = Len(visited[t])
                /\ pc[t] \in {"returned", "loop", "done"}
                /\ ~managers[self_tm[t]].running
                /\ managers[self_tm[t]].user_requested_stop
                /\ pc[t] = "done" => ret[t] = ~Required(VisitedStep(t, i)))
    /\ [][\A m \in Managers :
            (~managers[m].user_requested_stop /\ managers'[m].user_requested_stop)
                => \E t \in Threads :
                      /\ self_tm[t] = m /\ pc[t] = "exec"
                      /\ Len(results'[t]) = Len(visited[t])
                      /\ results'[t][Len(visited[t])].event = "stop"
                      /\ steps[step_index[t]].type = "notification"]_vars

\* a required notification was answered with stop and the run is over
C8_Witness ==
    \E t \in Threads :
        /\ pc[t] = "done" /\ ret[t] = FALSE
        /\ LastEnded(t) /\ Declined(t, Len(results[t])) /\ Required(LastStep(t))
        /\ managers[self_tm[t]].user_requested_stop

(***************************************************************************)
(* C9.  As claimed: a run of a program without find_and_click steps        *)
(* invokes the handlers of steps 1, 2, ..., len(steps), each once, in that *)
(* order (no stop() is called during the run).                             *)
(***************************************************************************)
NoJumps(program) == ~HasType(program, "find_and_click")

Ascending(t) == \A i \in 1..Len(visited[t]) : visited[t][i] = i

\* the run of a task that exists is over
RunOver(t) == pc[t] = "done" /\ task_name[t] # None /\ task_name[t][1] \in Tasks

C9_EveryStepOnce ==
    \A t \in Threads :
        (NoJumps(steps) /\ RunOver(t) /\ stopped_at[t] = None)
            => Ascending(t) /\ Len(visited[t]) = Len(steps)

(***************************************************************************)
(* C9, amended.  A run of a program without find_and_click steps invokes   *)
(* the handlers of steps 1, 2, ..., m, each once, in that order; m is      *)
(* len(steps) unless the run ends early: run_task returned False (a        *)
(* required step failed or a handler raised), a stop_task step ran, a      *)
(* notification was answered with stop, or stop() was called.              *)
(***************************************************************************)
C9_AscendingPrefix ==
    \A t \in Threads :
        NoJumps(steps) =>
            /\ Ascending(t)
            /\ ( /\ RunOver(t) /\ ret[t] = TRUE /\ stopped_at[t] = None
                 /\ ~StopTaskRan(t)
                 /\ \A i \in Ended(t) : ~Declined(t, i) )
               => Len(visited[t]) = Len(steps)

\* a run visited both steps of a two-step program, the first of which failed
C9_Witness ==
    \E t \in Threads :
        /\ NoJumps(steps) /\ RunOver(t) /\ ret[t] = TRUE
        /\ visited[t] = <<1, 2>> /\ Len(steps) = 2
        /\ Failed(t, 1)

(***************************************************************************)
(* C10.  No two threads execute run_task on the same TaskManager instance  *)
(* (and so on the same device session) at the same time.                   *)
(***************************************************************************)
C10_OneRunPerSession ==
    \A t, u \in Threads :
        (t # u /\ InRun(t) /\ InRun(u)) => self_tm[t] # self_tm[u]

(***************************************************************************)
(* C18.  When a run ends because the user chose stop in a notification     *)
(* step, the repeat driver that made the call (once, manual, infinite)     *)
(* starts no further run_task call and logs the outcome as a user stop,    *)
(* not as a failed run.                                                    *)
(***************************************************************************)
AfterRun(w) == wpc[w] \in {"once_run", "manual_run", "infinite_run"} /\ pc[w] = "done"

UserStopEndedRun(w) == LastEnded(w) /\ Declined(w, Len(results[w]))

C18_UserStopEndsDriver ==
    [][\A w \in Threads :
          (AfterRun(w) /\ UserStopEndedRun(w) /\ wpc'[w] # wpc[w])
              => /\ wpc'[w] = "finally"
                 /\ driver_log'[w] = "user_stop"]_vars

(***************************************************************************)
(* C19.  An exception raised inside a step handler (by the notification    *)
(* callback, the controller, the matcher, time.sleep) during run_task is   *)
(* caught by run_task: the call returns False, the handler that raised is  *)
(* the last one the run invoked, and running is False afterwards.          *)
(***************************************************************************)
C19_FaultEndsRun ==
    \A t \in Threads :
        \A i \in Ended(t) :
            results[t][i].raised =>
                /\ pc[t] = "done"
                /\ ret[t] = FALSE
                /\ i = Len(visited[t])
                /\ ~managers[self_tm[t]].running

\* the matcher raises in the first step, a find_and_click in click_all mode
\* that tolerates a miss, with a step left to run
C19_Witness ==
    \E t \in Threads :
        /\ pc[t] = "done"
        /\ Len(steps) > 1
        /\ steps[1].type = "find_and_click" /\ steps[1].click_all
        /\ steps[1].continue_if_not_found
        /\ visited[t] = <<1>>
        /\ results[t][1].raised

(***************************************************************************)
(* ImageMatcher (src/src/recognition/matcher.py).  A frame and a template  *)
(* enter find_template and find_all_templates only through the score map   *)
(* cv2.matchTemplate computes from them, and through the template's shape. *)
(* Scores and thresholds are multiples of 1/MaxScore.                      *)
(***************************************************************************)
\* no run, no GUI: the interpreter and the window as constructed
IdleInterpreter ==
    /\ steps = <<WaitStep>>
    /\ managers = [m \in Managers |-> NewManager(TRUE)]
    /\ InitFrames
    /\ InitGui
    /\ repeat_mode = "none"
    /\ repeat_count = 1

Shapes == (1..MaxTemplate) \X (1..MaxTemplate)

\* the positions in the order numpy scans them: row by row
Scan ==
    [i \in 1..Cardinality(Positions) |->
        <<(i - 1) % Cardinality(Columns), (i - 1) \div Cardinality(Columns)>>]

\* cv2.minMaxLoc: the largest score, and the first position in scan order
\* that has it
MaxVal(res) == CHOOSE v \in 0..MaxScore :
    /\ \E p \in Positions : res[p] = v
    /\ \A p \in Positions : res[p] <= v

MaxLoc(res) ==
    Scan[CHOOSE i \in DOMAIN Scan :
            /\ res[Scan[i]] = MaxVal(res)
            /\ \A j \in 1..(i - 1) : res[Scan[j]] # MaxVal(res)]

\* the centre of the template placed at top-left position pt
Center(pt, shape) == <<pt[1] + shape[1] \div 2, pt[2] + shape[2] \div 2>>

\* a find_template that wants the score to exceed the threshold
FindTemplateAboveOnly(res, shape, thr) ==
    IF shape = None THEN None
    ELSE IF MaxVal(res) <= thr THEN None
    ELSE Some(Center(MaxLoc(res), shape[1]))

\* find_template
FindTemplate(res, shape, thr) ==
    IF shape = None THEN None
    ELSE IF MaxVal(res) < thr THEN None
    ELSE Some(Center(MaxLoc(res), shape[1]))

\* match_points of the positions whose score exceeds the threshold
RECURSIVE MatchPointsAboveOnly(_, _, _, _)
MatchPointsAboveOnly(res, shape, thr, i) ==
    IF i > Len(Scan) THEN <<>>
    ELSE LET rest == MatchPointsAboveOnly(res, shape, thr, i + 1)
             c == Center(Scan[i], shape)
         IN  IF res[Scan[i]] > thr
             THEN <<<<c[1], c[2], res[Scan[i]]>>>> \o rest
             ELSE rest

\* match_points: every position at or above the threshold, in scan order,
\* as (center_x, center_y, confidence)
RECURSIVE MatchPoints(_, _, _, _)
MatchPoints(res, shape, thr, i) ==
    IF i > Len(Scan) THEN <<>>
    ELSE LET rest == MatchPoints(res, shape, thr, i + 1)
             c == Center(Scan[i], shape)
         IN  IF res[Scan[i]] >= thr
             THEN <<<<c[1], c[2], res[Scan[i]]>>>> \o rest
             ELSE rest

\* match_points left in the order of the scan
SortByScanOrder(points) == points

\* list.sort(key=confidence, reverse=True): stable, so equal confidences
\* keep their scan order
RECURSIVE SortByConfidence(_)
SortByConfidence(points) ==
    IF points = <<>> THEN <<>>
    ELSE LET sorted == SortByConfidence(SubSeq(points, 1, Len(points) - 1))
             last == points[Len(points)]
             k == Cardinality({i \in DOMAIN sorted : sorted[i][3] >= last[3]})
         IN  SubSeq(sorted, 1, k) \o <<last>> \o SubSeq(sorted, k + 1, Len(sorted))

\* min_distance = max(w, h) // 2
MinDistance(shape) ==
    (IF shape[1] >= shape[2] THEN shape[1] ELSE shape[2]) \div 2

\* the squared distance of two points
Distance2(a, b) == (a[1] - b[1]) * (a[1] - b[1]) + (a[2] - b[2]) * (a[2] - b[2])

\* is_duplicate that takes a match at the minimum distance for a duplicate
IsDuplicateAtDistance(pt, accepted, min_distance) ==
    \E i \in DOMAIN accepted :
        Distance2(pt, accepted[i]) <= min_distance * min_distance

\* is_duplicate: distance < min_distance for an accepted match
IsDuplicate(pt, accepted, min_distance) ==
    \E i \in DOMAIN accepted :
        Distance2(pt, accepted[i]) < min_distance * min_distance

\* the filter loop over the sorted match_points
RECURSIVE FilterMatches(_, _, _)
FilterMatches(points, accepted, min_distance) ==
    IF points = <<>> THEN accepted
    ELSE LET pt == <<points[1][1], points[1][2]>>
         IN  FilterMatches(Tail(points),
                 IF IsDuplicate(pt, accepted, min_distance)
                 THEN accepted ELSE Append(accepted, pt),
                 min_distance)

\* find_all_templates
FindAllTemplates(res, shape, thr) ==
    IF shape = None THEN <<>>
    ELSE FilterMatches(SortByConfidence(MatchPoints(res, shape[1], thr, 1)), <<>>,
                       MinDistance(shape[1]))

\* everything but the matcher stands still
exceptMatcher == <<coreVars, guiVars, emuVars, resolveVars, textVars, handoffVars, clickAllVars, findClickVars, actionVars, waitForVars>>

InitMatcher ==
    /\ IdleInterpreter
    /\ IdleEmulator
    /\ IdleResolve
    /\ IdleText
    /\ IdleHandoff
    /\ IdleClickAll
    /\ IdleFindAndClick
    /\ IdleAction
    /\ IdleWaitFor
    /\ match_result \in [Positions -> 0..MaxScore]
    /\ template \in {None} \cup {Some(shape) : shape \in Shapes}
    /\ threshold \in 1..MaxScore
    /\ match_found = None
    /\ matches = <<>>
    /\ called = {}

CallFindTemplate ==
    /\ "find_template" \notin called
    /\ match_found' = FindTemplate(match_result, template, threshold)
    /\ called' = called \cup {"find_template"}
    /\ UNCHANGED <<match_result, template, threshold, matches, exceptMatcher>>

CallFindAllTemplates ==
    /\ "find_all_templates" \notin called
    /\ matches' = FindAllTemplates(match_result, template, threshold)
    /\ called' = called \cup {"find_all_templates"}
    /\ UNCHANGED <<match_result, template, threshold, match_found, exceptMatcher>>

NextMatcher ==
    \/ CallFindTemplate
    \/ CallFindAllTemplates

SpecMatcher == InitMatcher /\ [][NextMatcher]_vars

(***************************************************************************)
(* C11.  find_all_templates never returns two points whose Euclidean       *)
(* distance is less than max(w, h) / 2 (the exact half, for odd and even   *)
(* sizes alike): with d2 the squared distance, d < max/2 is 4 d2 < max^2.  *)
(***************************************************************************)
MaxSide(shape) == IF shape[1] >= shape[2] THEN shape[1] ELSE shape[2]

C11_NoTwoMatchesWithinHalfTemplate ==
    ("find_all_templates" \in called /\ template # None) =>
        \A i, j \in DOMAIN matches :
            i # j => 4 * Distance2(matches[i], matches[j])
                        >= MaxSide(template[1]) * MaxSide(template[1])

(***************************************************************************)
(* C26.  find_all_templates returns its points by descending confidence:   *)
(* of two returned points the earlier has a score greater than or equal to *)
(* the later one's, and when a position is at or above the threshold the   *)
(* first returned point has the largest score of the frame.                *)
(***************************************************************************)
\* the score at the position whose centre is the returned point
ScoreOf(point) ==
    match_result[<<point[1] - template[1][1] \div 2, point[2] - template[1][2] \div 2>>]

C26_DescendingConfidence ==
    ("find_all_templates" \in called /\ template # None) =>
        /\ \A i, j \in DOMAIN matches :
               i < j => ScoreOf(matches[i]) >= ScoreOf(matches[j])
        /\ (\E p \in Positions : match_result[p] >= threshold) =>
               /\ matches # <<>>
               /\ \A p \in Positions : match_result[p] <= ScoreOf(matches[1])

\* two points returned, the first of a larger score and later in the scan
C26_Witness ==
    /\ "find_all_templates" \in called /\ template # None
    /\ Len(matches) >= 2
    /\ ScoreOf(matches[1]) > ScoreOf(matches[2])
    /\ \E i, j \in DOMAIN Scan :
           /\ i > j
           /\ Center(Scan[i], template[1]) = matches[1]
           /\ Center(Scan[j], template[1]) = matches[2]

(***************************************************************************)
(* C12.  find_template returns None when the largest score of the frame is *)
(* below the threshold; when it is at or above the threshold it returns    *)
(* the centre of a best-scoring position: top-left + (w div 2, h div 2).   *)
(***************************************************************************)
C12_BestOrNone ==
    ("find_template" \in called /\ template # None) =>
        LET best == {p \in Positions : \A q \in Positions : match_result[q] <= match_result[p]}
            top == CHOOSE p \in best : TRUE
        IN  IF match_result[top] < threshold
            THEN match_found = None
            ELSE \E p \in best :
                    match_found = Some(<<p[1] + template[1][1] \div 2,
                                   p[2] + template[1][2] \div 2>>)

\* the largest score equals the threshold, and a point is returned
C12_Witness ==
    /\ "find_template" \in called /\ template # None
    /\ \E p \in Positions : match_result[p] = threshold
    /\ \A p \in Positions : match_result[p] <= threshold
    /\ match_found # None

(***************************************************************************)
(* EmulatorController (src/src/emulator/controller.py).  Every method      *)
(* takes the instance (self) and what adb answers (out), and yields the    *)
(* instance after it, what it returns, and the adb commands it ran.        *)
(***************************************************************************)
DeviceIds == {"emulator-5554", "127.0.0.1:5555", "device01"}

\* a line of `adb devices` after the header: the serial and its state
Lines == [id : DeviceIds, state : {"device", "offline"}]

\* what `adb devices` may print: up to two lines, of different serials
Listings ==
    {<<>>} \cup {<<l>> : l \in Lines}
           \cup {x \in Lines \X Lines : x[1].id # x[2].id}

\* what subprocess.run may do: return with status 0, return with another
\* status, or raise (timeout, no such executable)
Statuses == {"ok", "nonzero", "raise"}

\* 'device' in line: the word is in the state column or in the serial
HasDeviceWord(line) == line.state = "device" \/ line.id = "device01"

\* the serials of the lines that hold the word, in the order printed
ParseDevices(listing) ==
    LET kept == SelectSeq(listing, HasDeviceWord)
    IN  [i \in DOMAIN kept |-> kept[i].id]

\* list_all_devices
ListAllDevices(status, listing) ==
    IF status = "raise" THEN <<>>
    ELSE ParseDevices(IF status = "ok" THEN listing ELSE <<>>)

Outcome(self, op, success, value, calls) ==
    [self |-> self, ret |-> [op |-> op, ok |-> success, value |-> value],
     calls |-> calls]

\* a connect_to_device that takes a device it does not find for lost
ConnectToDeviceUnbinds(self, device_id, status, listing) ==
    LET devices == ParseDevices(IF status = "ok" THEN listing ELSE <<>>)
    IN  IF status = "raise"
        THEN Outcome(self, "connect_to_device", FALSE, None, <<<<"devices">>>>)
        ELSE IF \A i \in DOMAIN devices : devices[i] # device_id
        THEN Outcome([self EXCEPT !.connected = FALSE],
                     "connect_to_device", FALSE, None, <<<<"devices">>>>)
        ELSE Outcome([self EXCEPT !.device_id = Some(device_id), !.connected = TRUE],
                     "connect_to_device", TRUE, None, <<<<"devices">>>>)

\* a connect_to_device that binds before it looks at the listing
ConnectToDeviceBindsFirst(self, device_id, status, listing) ==
    LET devices == ParseDevices(IF status = "ok" THEN listing ELSE <<>>)
        bound == [self EXCEPT !.device_id = Some(device_id), !.connected = TRUE]
    IN  IF status = "raise"
        THEN Outcome(bound, "connect_to_device", FALSE, None, <<<<"devices">>>>)
        ELSE IF \A i \in DOMAIN devices : devices[i] # device_id
        THEN Outcome(bound, "connect_to_device", FALSE, None, <<<<"devices">>>>)
        ELSE Outcome(bound, "connect_to_device", TRUE, None, <<<<"devices">>>>)

\* connect_to_device
ConnectToDevice(self, device_id, status, listing) ==
    LET devices == ParseDevices(IF status = "ok" THEN listing ELSE <<>>)
    IN  IF status = "raise"
        THEN Outcome(self, "connect_to_device", FALSE, None, <<<<"devices">>>>)
        ELSE IF \A i \in DOMAIN devices : devices[i] # device_id
        THEN Outcome(self, "connect_to_device", FALSE, None, <<<<"devices">>>>)
        ELSE Outcome([self EXCEPT !.device_id = Some(device_id), !.connected = TRUE],
                     "connect_to_device", TRUE, None, <<<<"devices">>>>)

\* _run_adb_command: None, or the output of the command
RunAdbCommand(self, command, status, stdout) ==
    IF ~self.connected
    THEN [out |-> None, calls |-> <<>>]
    ELSE [out |-> IF status = "ok" THEN Some(stdout) ELSE None,
          calls |-> <<<<"-s", self.device_id>> \o command>>]

\* wrappers that run their command whether connected or not
WrapperUnguarded(self, op, command, status) ==
    Outcome(self, op, status = "ok", None, <<<<"-s", self.device_id>> \o command>>)

\* wrappers that take a failed command for a lost connection
WrapperDisconnects(self, op, command, status) ==
    IF ~self.connected
    THEN Outcome(self, op, FALSE, None, <<>>)
    ELSE LET r == RunAdbCommand(self, command, status, "")
         IN  Outcome(IF r.out = None THEN [self EXCEPT !.connected = FALSE] ELSE self,
                     op, r.out # None, None, r.calls)

\* the wrappers that return result is not None
Wrapper(self, op, command, status) ==
    IF ~self.connected
    THEN Outcome(self, op, FALSE, None, <<>>)
    ELSE LET r == RunAdbCommand(self, command, status, "")
         IN  Outcome(self, op, r.out # None, None, r.calls)

\* click
Click(self, x, y, status) ==
    Wrapper(self, "click", <<"shell", "input", "tap", x, y>>, status)

\* swipe
Swipe(self, x1, y1, x2, y2, duration, status) ==
    Wrapper(self, "swipe", <<"shell", "input", "swipe", x1, y1, x2, y2, duration>>,
            status)

\* text.replace(" ", "%s").replace("&", "\\&"), character by character
EscapeText(text) ==
    [i \in DOMAIN text |->
        CASE text[i] = " " -> "%s"
          [] text[i] = "&" -> "\\&"
          [] OTHER -> text[i]]

\* input_text
InputText(self, text, status) ==
    Wrapper(self, "input_text", <<"shell", "input", "text", EscapeText(text)>>, status)

\* press_key
PressKey(self, keycode, status) ==
    Wrapper(self, "press_key", <<"shell", "input", "keyevent", keycode>>, status)

\* what `wm size` may print: a size, nothing, or something that is no size
WmSizes == {"Physical size: 1080x1920", "", "error: closed"}

\* get_screen_size
GetScreenSize(self, status, stdout) ==
    IF ~self.connected
    THEN Outcome(self, "get_screen_size", FALSE, None, <<>>)
    ELSE LET r == RunAdbCommand(self, <<"shell", "wm", "size">>, status, stdout)
         IN  IF r.out # None /\ r.out[1] = "Physical size: 1080x1920"
             THEN Outcome(self, "get_screen_size", TRUE, Some(<<1080, 1920>>), r.calls)
             ELSE Outcome(self, "get_screen_size", FALSE, None, r.calls)

\* screenshot: the bytes screencap sends are a PNG image, or not
Screenshot(self, status, png) ==
    IF ~self.connected
    THEN Outcome(self, "screenshot", FALSE, None, <<>>)
    ELSE IF self.device_id = None
    THEN Outcome(self, "screenshot", FALSE, None, <<>>)
    ELSE LET calls == <<<<"-s", self.device_id, "exec-out", "screencap", "-p">>>>
         IN  IF status = "ok" /\ png
             THEN Outcome(self, "screenshot", TRUE, Some("image"), calls)
             ELSE Outcome(self, "screenshot", FALSE, None, calls)

\* everything but the controller stands still
exceptEmulator == <<coreVars, guiVars, matcherVars, resolveVars, textVars, handoffVars, clickAllVars, findClickVars, actionVars, waitForVars>>

InitEmulator ==
    /\ IdleInterpreter
    /\ IdleMatcher
    /\ IdleEmulator
    /\ IdleResolve
    /\ IdleText
    /\ IdleHandoff
    /\ IdleClickAll
    /\ IdleFindAndClick
    /\ IdleAction
    /\ IdleWaitFor

\* what adb answers to a call
AdbOut(status, listing, stdout, png) ==
    [status |-> status, listing |-> listing, stdout |-> stdout, png |-> png]

\* a call has returned
Returned(r, args, out) ==
    /\ emulator' = r.self
    /\ emu_ret' = r.ret
    /\ adb_calls' = r.calls
    /\ emu_args' = args
    /\ adb_out' = out

CallConnectToDevice ==
    /\ \E id \in DeviceIds, status \in Statuses, listing \in Listings :
           Returned(ConnectToDevice(emulator, id, status, listing), <<id>>,
                    AdbOut(status, listing, "", FALSE))
    /\ UNCHANGED exceptEmulator

CallClick ==
    /\ \E x \in {0, 10}, status \in Statuses :
           Returned(Click(emulator, x, 20, status), <<x, 20>>,
                    AdbOut(status, <<>>, "", FALSE))
    /\ UNCHANGED exceptEmulator

CallSwipe ==
    /\ \E status \in Statuses :
           Returned(Swipe(emulator, 10, 20, 10, 0, 300, status), <<10, 20, 10, 0, 300>>,
                    AdbOut(status, <<>>, "", FALSE))
    /\ UNCHANGED exceptEmulator

CallInputText ==
    /\ \E text \in {<<"a">>, <<"a", " ", "&">>}, status \in Statuses :
           Returned(InputText(emulator, text, status), <<text>>,
                    AdbOut(status, <<>>, "", FALSE))
    /\ UNCHANGED exceptEmulator

CallPressKey ==
    /\ \E status \in Statuses :
           Returned(PressKey(emulator, "KEYCODE_BACK", status), <<"KEYCODE_BACK">>,
                    AdbOut(status, <<>>, "", FALSE))
    /\ UNCHANGED exceptEmulator

CallGetScreenSize ==
    /\ \E status \in Statuses, stdout \in WmSizes :
           Returned(GetScreenSize(emulator, status, stdout), <<>>,
                    AdbOut(status, <<>>, stdout, FALSE))
    /\ UNCHANGED exceptEmulator

CallScreenshot ==
    /\ \E status \in Statuses, png \in BOOLEAN :
           Returned(Screenshot(emulator, status, png), <<>>,
                    AdbOut(status, <<>>, "", png))
    /\ UNCHANGED exceptEmulator

\* the static method list_all_devices, called while the controller exists
CallListAllDevices ==
    /\ \E status \in Statuses, listing \in Listings :
           Returned(Outcome(emulator, "list_all_devices", TRUE,
                            Some(ListAllDevices(status, listing)), <<<<"devices">>>>),
                    <<>>, AdbOut(status, listing, "", FALSE))
    /\ UNCHANGED exceptEmulator

NextEmulator ==
    \/ CallConnectToDevice
    \/ CallListAllDevices
    \/ CallClick
    \/ CallSwipe
    \/ CallInputText
    \/ CallPressKey
    \/ CallGetScreenSize
    \/ CallScreenshot

SpecEmulator == InitEmulator /\ [][NextEmulator]_vars

(***************************************************************************)
(* C13.  click, swipe, input_text, press_key, get_screen_size and          *)
(* screenshot, called on an instance that is not connected, return the     *)
(* failure value (False / None) and run no adb command.                    *)
(***************************************************************************)
CommandWrappers ==
    {"click", "swipe", "input_text", "press_key", "get_screen_size", "screenshot"}

C13_UnboundIsNoOp ==
    [][(~emulator.connected /\ emu_ret'.op \in CommandWrappers /\ emu_ret' # emu_ret)
         => (~emu_ret'.ok /\ emu_ret'.value = None /\ adb_calls' = <<>>)]_vars

\* a get_screen_size that failed without a command: the instance was unbound
C13_Witness ==
    /\ emu_ret.op = "get_screen_size" /\ ~emu_ret.ok
    /\ adb_calls = <<>> /\ ~emulator.connected

C28_OnlyConnectBinds ==
    [][emu_ret'.op \in {"screenshot", "click", "swipe", "input_text", "press_key",
                        "get_screen_size", "list_all_devices"}
         => /\ emulator'.device_id = emulator.device_id
            /\ emulator'.connected = emulator.connected]_vars

\* a click whose command failed on a bound controller: it stays bound
C28_Witness ==
    /\ emu_ret = [op |-> "click", ok |-> FALSE, value |-> None]
    /\ adb_out.status # "ok"
    /\ emulator.connected
    /\ emulator.device_id # None

(***************************************************************************)
(* Template resolution (src/src/task/manager.py): a template reference is  *)
(* looked up under config/templates/<sanitized game name>/ and then under  *)
(* config/templates/.  A path is the sequence of its components.           *)
(***************************************************************************)
TemplatesRoot == <<"config", "templates">>

\* pathlib's "/": joining an empty component changes nothing
Join(path, component) == IF component = "" THEN path ELSE Append(path, component)

GameDirs == {"", "De_Che_2_Viet"}

\* the files that may lie under config/templates
TemplatePaths ==
    {Join(Join(TemplatesRoot, dir), name) : dir \in GameDirs, name \in TemplateNames}

\* a two-step lookup that tries the shared directory first
ResolveTemplateSharedFirst(game, reference, files) ==
    LET first == Join(TemplatesRoot, reference)
        second == Join(Join(TemplatesRoot, game), reference)
    IN  IF first \in files THEN first ELSE second

\* template_path after the two-step lookup: the game's file when it exists,
\* else the shared path (which may not exist either)
ResolveTemplate(game, reference, files) ==
    LET first == Join(Join(TemplatesRoot, game), reference)
        second == Join(TemplatesRoot, reference)
    IN  IF first \in files THEN first ELSE second

\* _step_wait_template: the path it waits for, None when no file exists
WaitTemplatePath(game, reference, files) ==
    LET path == ResolveTemplate(game, reference, files)
    IN  IF path \in files THEN Some(path) ELSE None

\* _step_find_and_click: the (template, template_path) pairs of the
\* references that resolve, in list order
RECURSIVE ValidTemplates(_, _, _)
ValidTemplates(game, templates, files) ==
    IF templates = <<>> THEN <<>>
    ELSE LET path == ResolveTemplate(game, Head(templates), files)
             rest == ValidTemplates(game, Tail(templates), files)
         IN  IF path \in files THEN <<<<Head(templates), path>>>> \o rest ELSE rest

exceptResolve == <<coreVars, guiVars, matcherVars, emuVars, textVars, handoffVars, clickAllVars, findClickVars, actionVars, waitForVars>>

InitResolve ==
    /\ IdleInterpreter
    /\ IdleMatcher
    /\ IdleEmulator
    /\ IdleText
    /\ IdleHandoff
    /\ IdleClickAll
    /\ IdleFindAndClick
    /\ IdleAction
    /\ IdleWaitFor
    /\ template_files \in SUBSET TemplatePaths
    /\ sanitized_game_name \in GameDirs
    /\ step_templates \in {<<"a.png">>, <<"b.png">>, <<"a.png", "b.png">>,
                          <<"b.png", "a.png">>}
    /\ template_path = None
    /\ resolved_templates = <<>>
    /\ resolved = {}

ResolveWaitTemplate ==
    /\ "wait_template" \notin resolved
    /\ template_path' =
          WaitTemplatePath(sanitized_game_name, Head(step_templates), template_files)
    /\ resolved' = resolved \cup {"wait_template"}
    /\ UNCHANGED <<template_files, sanitized_game_name, step_templates,
                   resolved_templates, exceptResolve>>

ResolveFindAndClick ==
    /\ "find_and_click" \notin resolved
    /\ resolved_templates' =
          ValidTemplates(sanitized_game_name, step_templates, template_files)
    /\ resolved' = resolved \cup {"find_and_click"}
    /\ UNCHANGED <<template_files, sanitized_game_name, step_templates,
                   template_path, exceptResolve>>

NextResolve ==
    \/ ResolveWaitTemplate
    \/ ResolveFindAndClick

SpecResolve == InitResolve /\ [][NextResolve]_vars

(***************************************************************************)
(* C15.  In _step_wait_template and in _step_find_and_click alike, a       *)
(* template reference resolves to the game's path when that file exists,   *)
(* to the shared path only when the game's file is absent and the shared   *)
(* file exists, and to nothing when neither exists; the result is one      *)
(* existing path per reference.                                            *)
(***************************************************************************)
ScopedPath(name) == Join(Join(TemplatesRoot, sanitized_game_name), name)

SharedPath(name) == Join(TemplatesRoot, name)

\* what the claim takes the resolution of a reference to be
Expected(name) ==
    IF ScopedPath(name) \in template_files THEN Some(ScopedPath(name))
    ELSE IF SharedPath(name) \in template_files THEN Some(SharedPath(name))
    ELSE None

C15_ScopedBeforeShared ==
    /\ "wait_template" \in resolved => template_path = Expected(Head(step_templates))
    /\ "find_and_click" \in resolved =>
          LET wanted == SelectSeq(step_templates, LAMBDA n : Expected(n) # None)
          IN  /\ Len(resolved_templates) = Len(wanted)
              /\ \A i \in DOMAIN wanted :
                    resolved_templates[i] = <<wanted[i], Expected(wanted[i])[1]>>

\* both files of a.png exist in different directories and both handlers
\* settle on the game's file
C15_Witness ==
    /\ resolved = {"wait_template", "find_and_click"}
    /\ sanitized_game_name # ""
    /\ Head(step_templates) = "a.png"
    /\ {ScopedPath("a.png"), SharedPath("a.png")} \subseteq template_files
    /\ template_path = Some(ScopedPath("a.png"))
    /\ resolved_templates[1] = <<"a.png", ScopedPath("a.png")>>

(***************************************************************************)
(* utils/text_utils.py.  A string is a sequence of characters and a        *)
(* character is named by its code point, or stands for itself when it is   *)
(* ASCII.  The characters are those of the game name "Đế Chế 2 Việt", the  *)
(* three combining marks its letters decompose into, and the ASCII         *)
(* characters the later passes tell apart.                                 *)
(***************************************************************************)
MaxLen == 3

\* U+0301 acute, U+0302 circumflex, U+0323 dot below: general category Mn
CombiningMarks == {"U+0301", "U+0302", "U+0323"}

\* U+0110 is the capital D with stroke, U+1EBF e with circumflex and acute,
\* U+1EC7 e with circumflex and dot below
Letters == {"a", "e", "i", "h", "t", "C", "D", "V", "U+0110", "U+1EBF", "U+1EC7"}

Digits == {"2"}

\* the characters strings of every length up to MaxLen are drawn from
Alphabet == {"a", "2", " ", "_", "-", "!", "U+0110", "U+1EBF", "U+0301"}

GameName ==
    <<"U+0110", "U+1EBF", " ", "C", "h", "U+1EBF", " ", "2", " ",
      "V", "i", "U+1EC7", "t">>

Texts == {GameName} \cup UNION {[1..n -> Alphabet] : n \in 0..MaxLen}

\* the canonical decomposition of one character (unicodedata.normalize('NFD')):
\* U+0110 has none
Decomposition(char) ==
    CASE char = "U+1EBF" -> <<"e", "U+0302", "U+0301">>
      [] char = "U+1EC7" -> <<"e", "U+0323", "U+0302">>
      [] OTHER -> <<char>>

RECURSIVE NFD(_)
NFD(s) == IF s = <<>> THEN <<>> ELSE Decomposition(Head(s)) \o NFD(Tail(s))

\* unicodedata.category(char)
Category(char) ==
    CASE char \in CombiningMarks -> "Mn"
      [] char \in Letters -> "L"
      [] char \in Digits -> "Nd"
      [] char = " " -> "Zs"
      [] OTHER -> "P"

\* unicodedata.normalize('NFC'): a run that is the decomposition of a character
\* is composed again
RECURSIVE NFC(_)
NFC(s) ==
    IF s = <<>> THEN <<>>
    ELSE LET composed == {c \in {"U+1EBF", "U+1EC7"} :
                            /\ Len(s) >= 3
                            /\ SubSeq(s, 1, 3) = Decomposition(c)}
         IN  IF composed # {}
             THEN <<CHOOSE c \in composed : TRUE>> \o NFC(SubSeq(s, 4, Len(s)))
             ELSE <<Head(s)>> \o NFC(Tail(s))

RemoveAccents(s) ==
    IF s = <<>> THEN s
    ELSE NFC(SelectSeq(NFD(s), LAMBDA char : Category(char) # "Mn"))

\* what \w of a str pattern matches: Unicode letters and digits, and "_"
IsWord(char) == Category(char) \in {"L", "Nd"} \/ char = "_"

\* text.replace(' ', '_')
ReplaceSpaces(s) == [i \in DOMAIN s |-> IF s[i] = " " THEN "_" ELSE s[i]]

\* re.sub(r'[^\w\-_]', '', text)
RemoveSpecial(s) ==
    SelectSeq(s, LAMBDA char : IsWord(char) \/ char = "-" \/ char = "_")

\* re.sub(r'_+', '_', text)
RECURSIVE CollapseUnderscores(_)
CollapseUnderscores(s) ==
    IF Len(s) < 2 THEN s
    ELSE IF s[1] = "_" /\ s[2] = "_" THEN CollapseUnderscores(Tail(s))
    ELSE <<Head(s)>> \o CollapseUnderscores(Tail(s))

\* text.strip('_')
RECURSIVE StripUnderscores(_)
StripUnderscores(s) ==
    IF s = <<>> THEN s
    ELSE IF Head(s) = "_" THEN StripUnderscores(Tail(s))
    ELSE IF s[Len(s)] = "_" THEN StripUnderscores(SubSeq(s, 1, Len(s) - 1))
    ELSE s

SanitizeFilename(s) ==
    IF s = <<>> THEN s
    ELSE StripUnderscores(CollapseUnderscores(RemoveSpecial(ReplaceSpaces(
             RemoveAccents(s)))))

exceptText == <<coreVars, guiVars, matcherVars, emuVars, resolveVars, handoffVars, clickAllVars, findClickVars, actionVars, waitForVars>>

InitText ==
    /\ IdleInterpreter
    /\ IdleMatcher
    /\ IdleEmulator
    /\ IdleResolve
    /\ IdleHandoff
    /\ IdleClickAll
    /\ IdleFindAndClick
    /\ IdleAction
    /\ IdleWaitFor
    /\ raw_text \in Texts
    /\ no_accents = <<>>
    /\ sanitized = <<>>
    /\ text_called = {}

CallRemoveAccents ==
    /\ "remove_accents" \notin text_called
    /\ no_accents' = RemoveAccents(raw_text)
    /\ text_called' = text_called \cup {"remove_accents"}
    /\ UNCHANGED <<raw_text, sanitized, exceptText>>

CallSanitizeFilename ==
    /\ "sanitize_filename" \notin text_called
    /\ sanitized' = SanitizeFilename(raw_text)
    /\ text_called' = text_called \cup {"sanitize_filename"}
    /\ UNCHANGED <<raw_text, no_accents, exceptText>>

NextText ==
    \/ CallRemoveAccents
    \/ CallSanitizeFilename

SpecText == InitText /\ [][NextText]_vars

(***************************************************************************)
(* C16.  sanitize_filename folds every accented character to its base      *)
(* form, turns spaces into underscores, strips every character outside     *)
(* word/hyphen/underscore, collapses repeated underscores and trims the    *)
(* underscores at both ends: every character of the result is an           *)
(* unaccented base letter, a digit, a hyphen or an underscore, and the     *)
(* name "Đế Chế 2 Việt" becomes "De_Che_2_Viet".                           *)
(***************************************************************************)
BaseLetters == {"a", "e", "i", "h", "t", "C", "D", "V"}

De_Che_2_Viet ==
    <<"D", "e", "_", "C", "h", "e", "_", "2", "_", "V", "i", "e", "t">>

C16_SanitizedIsFolded ==
    "sanitize_filename" \in text_called =>
        /\ \A i \in DOMAIN sanitized :
              sanitized[i] \in BaseLetters \cup Digits \cup {"-", "_"}
        /\ raw_text = GameName => sanitized = De_Che_2_Viet

(***************************************************************************)
(* gui/main_window.py, notification_callback: the worker thread schedules  *)
(* show_dialog on the UI thread and waits on result_event for at most      *)
(* WaitTimeout seconds; the UI thread opens the dialog, stores its answer  *)
(* in result_value[0] and sets the event.  The two threads interleave      *)
(* statement by statement.                                                 *)
(***************************************************************************)
WaitTimeout == 300

exceptHandoff == <<coreVars, guiVars, matcherVars, emuVars, resolveVars, textVars, clickAllVars, findClickVars, actionVars, waitForVars>>

\* the call is entered: result_event = threading.Event(), result_value = [True]
InitHandoff ==
    /\ IdleInterpreter
    /\ IdleMatcher
    /\ IdleEmulator
    /\ IdleResolve
    /\ IdleText
    /\ IdleClickAll
    /\ IdleFindAndClick
    /\ IdleAction
    /\ IdleWaitFor
    /\ cb_pc = "start"
    /\ result_event = FALSE
    /\ result_value = TRUE
    /\ dialog = "none"
    /\ dialog_outcome = "pending"
    /\ elapsed = 0
    /\ timed_out = FALSE
    /\ cb_result = None

\* worker: self.root.after(0, show_dialog), then result_event.wait begins
ScheduleDialog ==
    /\ cb_pc = "start"
    /\ cb_pc' = "wait"
    /\ dialog' = "queued"
    /\ UNCHANGED <<result_event, result_value, dialog_outcome, elapsed, timed_out,
                   cb_result, exceptHandoff>>

\* a second passes while the worker is inside result_event.wait(timeout=300)
Tick ==
    /\ cb_pc = "wait"
    /\ elapsed < WaitTimeout
    /\ elapsed' = elapsed + 1
    /\ UNCHANGED <<cb_pc, result_event, result_value, dialog, dialog_outcome,
                   timed_out, cb_result, exceptHandoff>>

\* worker: result_event.wait returns, because the event is set or because the
\* timeout has passed
WaitReturns ==
    /\ cb_pc = "wait"
    /\ result_event \/ elapsed = WaitTimeout
    /\ cb_pc' = "read"
    /\ timed_out' = ~result_event
    /\ UNCHANGED <<result_event, result_value, dialog, dialog_outcome, elapsed,
                   cb_result, exceptHandoff>>

\* worker: return result_value[0]
ReturnResult ==
    /\ cb_pc = "read"
    /\ cb_pc' = "done"
    /\ cb_result' = Some(result_value)
    /\ UNCHANGED <<result_event, result_value, dialog, dialog_outcome, elapsed,
                   timed_out, exceptHandoff>>

\* UI thread: the event loop runs show_dialog, which opens the modal dialog
\* and waits for the user (dialog.wait_window())
ShowDialog ==
    /\ dialog = "queued"
    /\ dialog' = "open"
    /\ UNCHANGED <<cb_pc, result_event, result_value, dialog_outcome, elapsed,
                   timed_out, cb_result, exceptHandoff>>

\* UI thread: the user presses a button and
\* result_value[0] = self.show_notification_dialog(message, step_name)
UserAnswers ==
    /\ dialog = "open"
    /\ \E answer \in {"continue", "stop"} :
          /\ dialog_outcome' = answer
          /\ result_value' = (answer = "continue")
    /\ dialog' = "assigned"
    /\ UNCHANGED <<cb_pc, result_event, elapsed, timed_out, cb_result, exceptHandoff>>

\* UI thread: show_notification_dialog raises and the except clause stores True
DialogRaises ==
    /\ dialog \in {"queued", "open"}
    /\ dialog_outcome' = "raised"
    /\ result_value' = TRUE
    /\ dialog' = "assigned"
    /\ UNCHANGED <<cb_pc, result_event, elapsed, timed_out, cb_result, exceptHandoff>>

\* UI thread: finally: result_event.set()
SetEvent ==
    /\ dialog = "assigned"
    /\ result_event' = TRUE
    /\ dialog' = "done"
    /\ UNCHANGED <<cb_pc, result_value, dialog_outcome, elapsed, timed_out,
                   cb_result, exceptHandoff>>

NextHandoff ==
    \/ ScheduleDialog
    \/ Tick
    \/ WaitReturns
    \/ ReturnResult
    \/ ShowDialog
    \/ UserAnswers
    \/ DialogRaises
    \/ SetEvent

SpecHandoff == InitHandoff /\ [][NextHandoff]_vars

(***************************************************************************)
(* C17.  What notification_callback returns to the worker: the user's      *)
(* choice when the dialog was resolved within the 300 seconds, and True    *)
(* (continue) when the dialog raised or was not resolved in time.          *)
(***************************************************************************)
C17_ChoiceOrDefault ==
    cb_result # None =>
        IF timed_out THEN cb_result = Some(TRUE)
        ELSE cb_result = Some(dialog_outcome # "stop")

(***************************************************************************)
(* task/manager.py, _step_find_and_click with click_all set, from the      *)
(* capture on (lines 275-337): one action per call the handler makes on    *)
(* the controller or the matcher, while the device's screen goes on        *)
(* changing.  Every call is logged in ca_calls.                            *)
(***************************************************************************)
\* the centres find_all_templates reports
P1 == <<1, 1>>

P2 == <<2, 1>>

\* what find_all_templates may return for one frame and one template
MatchLists == {<<>>, <<P1>>, <<P2, P1>>}

ClickAllSteps ==
    {[BlankStep EXCEPT !.type = "find_and_click", !.click_all = TRUE,
                       !.templates = list, !.goto_step_if_found = goto,
                       !.continue_if_not_found = continue] :
        list \in {<<"a.png">>, <<"a.png", "b.png">>, <<"b.png", "a.png">>},
        goto \in {None, Some(2)},
        continue \in BOOLEAN}

\* valid_templates, for every set of template files that leaves one or more
\* of the step's templates
ValidLists(step) ==
    {SelectSeq(step.templates, LAMBDA n : n \in files) :
        files \in SUBSET TemplateNames} \ {<<>>}

\* a call on the controller or the matcher
Call(op, frame, name, point) ==
    [op |-> op, frame |-> frame, template |-> name, point |-> point]

ScreenshotCall == Call("screenshot", 0, "", <<0, 0>>)

FindAllCall(frame, name) == Call("find_all_templates", frame, name, <<0, 0>>)

ClickCall(point) == Call("click", 0, "", point)

\* a for loop that goes on to the next template after a hit
AfterFindNoBreak(found, index, n) ==
    IF index < n THEN "next"
    ELSE "exhausted"

\* the for loop over valid_templates after a find_all_templates call: break
\* on the first non-empty list, else the next template, else the end
AfterFind(found, index, n) ==
    IF found # <<>> THEN "break"
    ELSE IF index < n THEN "next"
    ELSE "exhausted"

exceptClickAll == <<coreVars, guiVars, matcherVars, emuVars, resolveVars, textVars, handoffVars, findClickVars, actionVars, waitForVars>>

\* the handler has resolved its templates and stands before the capture
InitClickAll ==
    /\ IdleInterpreter
    /\ IdleMatcher
    /\ IdleEmulator
    /\ IdleResolve
    /\ IdleText
    /\ IdleHandoff
    /\ IdleFindAndClick
    /\ IdleAction
    /\ IdleWaitFor
    /\ screen = 1
    /\ found_on \in [Frames -> [TemplateNames -> MatchLists]]
    /\ ca_step \in ClickAllSteps
    /\ ca_templates \in ValidLists(ca_step)
    /\ ca_pc = "capture"
    /\ screenshot = None
    /\ ca_index = 1
    /\ all_matches = <<>>
    /\ ca_calls = <<>>
    /\ ca_report = None

\* the device shows another frame
ScreenChanges ==
    /\ ca_pc \notin {"idle", "done"}
    /\ \E f \in Frames \ {screen} : screen' = f
    /\ UNCHANGED <<found_on, ca_step, ca_templates, ca_pc, screenshot, ca_index,
                   all_matches, ca_calls, ca_report, exceptClickAll>>

\* screenshot = self.emulator.screenshot(), and the return on a failure
Capture ==
    /\ ca_pc = "capture"
    /\ ca_calls' = Append(ca_calls, ScreenshotCall)
    /\ \E captured \in BOOLEAN :
          IF captured
          THEN /\ screenshot' = Some(screen)
               /\ ca_pc' = "search"
               /\ UNCHANGED ca_report
          ELSE /\ ca_report' =
                     Some(Report(NewManager(TRUE), FALSE, "Failed to take screenshot"))
               /\ ca_pc' = "done"
               /\ UNCHANGED screenshot
    /\ UNCHANGED <<screen, found_on, ca_step, ca_templates, ca_index, all_matches,
                   exceptClickAll>>

\* one round of the for loop over valid_templates: the find_all_templates
\* call on the captured frame, which returns or raises
TryTemplate ==
    /\ ca_pc = "search"
    /\ LET name == ca_templates[ca_index]
           found == found_on[screenshot[1]][name]
           loop == AfterFind(found, ca_index, Len(ca_templates))
       IN  /\ ca_calls' = Append(ca_calls, FindAllCall(screenshot[1], name))
           /\ \/ /\ ca_pc' = "done"
                 /\ ca_report' = Some(Raise(NewManager(TRUE)))
                 /\ UNCHANGED <<ca_index, all_matches>>
              \/ \* if matches: all_matches = matches
                 /\ all_matches' = IF found # <<>> THEN found ELSE all_matches
                 /\ IF loop = "next"
                    THEN /\ ca_index' = ca_index + 1
                         /\ UNCHANGED <<ca_pc, ca_report>>
                    ELSE \* after the loop: if not all_matches
                         /\ ca_index' = 1
                         /\ IF all_matches' = <<>>
                            THEN /\ ca_pc' = "done"
                                 /\ ca_report' =
                                       Some(NotFoundBranch(NewManager(TRUE), ca_step,
                                                           "not found"))
                            ELSE /\ ca_pc' = "tap"
                                 /\ UNCHANGED ca_report
    /\ UNCHANGED <<screen, found_on, ca_step, ca_templates, screenshot,
                   exceptClickAll>>

\* one round of the for loop over all_matches: self.emulator.click(x, y);
\* after the last round the found branch
Tap ==
    /\ ca_pc = "tap"
    /\ ca_calls' = Append(ca_calls, ClickCall(all_matches[ca_index]))
    /\ IF ca_index < Len(all_matches)
       THEN /\ ca_index' = ca_index + 1
            /\ UNCHANGED <<ca_pc, ca_report>>
       ELSE /\ ca_pc' = "done"
            /\ ca_report' = Some(FoundBranch(NewManager(TRUE), ca_step))
            /\ UNCHANGED ca_index
    /\ UNCHANGED <<screen, found_on, ca_step, ca_templates, screenshot, all_matches,
                   exceptClickAll>>

NextClickAll ==
    \/ ScreenChanges
    \/ Capture
    \/ TryTemplate
    \/ Tap

SpecClickAll == InitClickAll /\ [][NextClickAll]_vars

(***************************************************************************)
(* C20.  With click_all set and one or more templates resolved, the        *)
(* handler captures one frame, calls find_all_templates on that frame for  *)
(* the resolved templates in list order up to the first that has a match   *)
(* (no later template is tried, no two templates' matches are merged) and  *)
(* then taps every point of that template's list once, in the list's       *)
(* order.                                                                  *)
(***************************************************************************)
\* the calls the claim expects of a handler that captured frame f and returned
ExpectedCalls(f) ==
    LET n == Len(ca_templates)
        hit(i) == found_on[f][ca_templates[i]] # <<>>
        last == IF \E i \in 1..n : hit(i)
                THEN CHOOSE i \in 1..n : hit(i) /\ \A j \in 1..(i - 1) : ~hit(j)
                ELSE n
        points == found_on[f][ca_templates[last]]
    IN  <<ScreenshotCall>>
        \o [i \in 1..last |-> FindAllCall(f, ca_templates[i])]
        \o [j \in 1..Len(points) |-> ClickCall(points[j])]

C20_OneFrameFirstHitAllTaps ==
    /\ Cardinality({i \in DOMAIN ca_calls : ca_calls[i].op = "screenshot"}) <= 1
    /\ (ca_pc = "done" /\ screenshot # None /\ ~ca_report[1].raised) =>
          ca_calls = ExpectedCalls(screenshot[1])

\* the second template is the first with matches, two of them, and the screen
\* has changed after the capture to a frame that shows the first template
C20_Witness ==
    /\ ca_pc = "done"
    /\ screenshot = Some(1)
    /\ screen = 2
    /\ ca_templates = <<"a.png", "b.png">>
    /\ found_on[1]["a.png"] = <<>>
    /\ found_on[1]["b.png"] = <<P2, P1>>
    /\ found_on[2]["a.png"] = <<P1>>
    /\ ca_calls = <<ScreenshotCall, FindAllCall(1, "a.png"), FindAllCall(1, "b.png"),
                    ClickCall(P2), ClickCall(P1)>>
    /\ ca_report = Some(FoundBranch(NewManager(TRUE), ca_step))

(***************************************************************************)
(* task/manager.py, _step_find_and_click from its entry: the template list *)
(* and its resolution (lines 222-270), and the single mode (338-392), one  *)
(* action per call on the matcher or the controller, and the click_all     *)
(* mode (276-337) as one action.  A template file may be removed once the  *)
(* handler has resolved its templates.  Times are counted in ticks.        *)
(***************************************************************************)
\* a second has as many ticks as a step has templates at most, so that
\* timeout / len(valid_templates) is a whole number of ticks
TicksPerSecond == 2

FindAndClickSteps ==
    {[BlankStep EXCEPT !.type = "find_and_click", !.click_all = all,
                       !.templates = names[1], !.template = names[2],
                       !.goto_step_if_found = found,
                       !.goto_step_if_not_found = missing,
                       !.continue_if_not_found = continue] :
        names \in {<<<<>>, None>>, <<<<>>, Some("b.png")>>, <<<<"a.png">>, None>>,
                   <<<<"a.png", "b.png">>, Some("b.png")>>},
        all \in BOOLEAN,
        found \in {None, Some(0), Some(2)},
        missing \in {None, Some(0), Some(1)},
        continue \in BOOLEAN}

\* template_list: the templates key if it is not empty, else the template key
TemplateList(step) ==
    IF step.templates # <<>> THEN step.templates
    ELSE IF step.template # None THEN <<step.template[1]>>
    ELSE <<>>

\* a call on the matcher or the controller
FcCall(op, name, timeout, point) ==
    [op |-> op, template |-> name, timeout |-> timeout, point |-> point]

WaitForCall(name, timeout) == FcCall("wait_for_template", name, timeout, <<0, 0>>)

TapCall(point) == FcCall("click", "", 0, point)

ShotCall == FcCall("screenshot", "", 0, <<0, 0>>)

FindAllCallOf(name) == FcCall("find_all_templates", name, 0, <<0, 0>>)

\* a load_template that returns a template whose file is gone
LoadTemplateCached(name, files) == Some(name)

\* load_template: None when the file does not exist (or cannot be opened)
LoadTemplate(name, files) == IF name \in files THEN Some(name) ELSE None

\* find_template (through wait_for_template): None without a template
FoundAt(name, files, appears) ==
    IF LoadTemplate(name, files) = None THEN None ELSE appears[name]

\* find_all_templates: the empty list without a template, else the points
\* of the template on the screen
AllFoundAt(name, files, appears) ==
    IF LoadTemplate(name, files) = None \/ appears[name] = None THEN <<>>
    ELSE IF appears[name] = Some(P1) THEN <<P1>>
    ELSE <<P2, P1>>

\* every template is waited for with the step's whole timeout
TimeoutPerTemplateWhole(timeout, n) == TicksPerSecond * timeout

\* timeout_per_template = max(1.0, timeout / len(valid_templates)), in ticks
TimeoutPerTemplate(timeout, n) ==
    LET share == (TicksPerSecond * timeout) \div n
    IN  IF share > TicksPerSecond THEN share ELSE TicksPerSecond

exceptFindAndClick == <<coreVars, guiVars, matcherVars, emuVars, resolveVars, textVars, handoffVars, clickAllVars, actionVars, waitForVars>>

InitFindAndClick ==
    /\ IdleInterpreter
    /\ IdleMatcher
    /\ IdleEmulator
    /\ IdleResolve
    /\ IdleText
    /\ IdleHandoff
    /\ IdleClickAll
    /\ IdleAction
    /\ IdleWaitFor
    /\ fc_step \in FindAndClickSteps
    /\ fc_files \in SUBSET TemplateNames
    /\ fc_timeout \in 0..MaxTimeout
    /\ fc_appears \in [TemplateNames -> {None, Some(P1), Some(P2)}]
    /\ fc_pc = "entry"
    /\ fc_valid = <<>>
    /\ fc_index = 1
    /\ fc_result = None
    /\ fc_calls = <<>>
    /\ fc_report = None

\* the template list, valid_templates, and the returns before the modes part
ResolveTemplates ==
    /\ fc_pc = "entry"
    /\ LET valid == SelectSeq(TemplateList(fc_step), LAMBDA n : n \in fc_files)
       IN  /\ fc_valid' = valid
           /\ IF TemplateList(fc_step) = <<>>
              THEN /\ fc_pc' = "done"
                   /\ fc_report' =
                         Some(Report(NewManager(TRUE), FALSE,
                                     "Find and click step missing template path"))
              ELSE IF valid = <<>>
              THEN /\ fc_pc' = "done"
                   /\ fc_report' =
                         Some(NotFoundBranch(NewManager(TRUE), fc_step,
                                             "no template file"))
              ELSE /\ fc_pc' = IF fc_step.click_all THEN "click_all" ELSE "wait"
                   /\ UNCHANGED fc_report
    /\ UNCHANGED <<fc_step, fc_files, fc_timeout, fc_appears, fc_index, fc_result,
                   fc_calls, exceptFindAndClick>>

\* one round of the single mode's loop over valid_templates: the
\* wait_for_template call, the break on a result, the not-found branch
\* after the last round
WaitForCandidate ==
    /\ fc_pc = "wait"
    /\ LET name == fc_valid[fc_index]
           result == FoundAt(name, fc_files, fc_appears)
       IN  /\ fc_calls' =
                 Append(fc_calls,
                        WaitForCall(name, TimeoutPerTemplate(fc_timeout, Len(fc_valid))))
           /\ fc_result' = result
           /\ IF result # None
              THEN /\ fc_pc' = "click"
                   /\ UNCHANGED <<fc_index, fc_report>>
              ELSE IF fc_index < Len(fc_valid)
              THEN /\ fc_index' = fc_index + 1
                   /\ UNCHANGED <<fc_pc, fc_report>>
              ELSE /\ fc_pc' = "done"
                   /\ fc_report' =
                         Some(NotFoundBranch(NewManager(TRUE), fc_step, "not found"))
                   /\ UNCHANGED fc_index
    /\ UNCHANGED <<fc_step, fc_files, fc_timeout, fc_appears, fc_valid,
                   exceptFindAndClick>>

\* the single mode's found branch: self.emulator.click(x, y), then the jump
ClickResult ==
    /\ fc_pc = "click"
    /\ fc_calls' = Append(fc_calls, TapCall(fc_result[1]))
    /\ fc_report' = Some(FoundBranch(NewManager(TRUE), fc_step))
    /\ fc_pc' = "done"
    /\ UNCHANGED <<fc_step, fc_files, fc_timeout, fc_appears, fc_valid, fc_index,
                   fc_result, exceptFindAndClick>>

\* the click_all mode: the capture, find_all_templates for the templates in
\* order up to the first with a match, a tap at each of its points, the jump
ClickAllOccurrences ==
    /\ fc_pc = "click_all"
    /\ \E shot \in BOOLEAN :
          LET n == Len(fc_valid)
              found(i) == AllFoundAt(fc_valid[i], fc_files, fc_appears)
              hits == {i \in 1..n : found(i) # <<>>}
              last == IF hits = {} THEN n
                      ELSE CHOOSE i \in hits : \A j \in hits : i <= j
              all_found == IF hits = {} THEN <<>> ELSE found(last)
          IN  IF ~shot
              THEN /\ fc_calls' = <<ShotCall>>
                   /\ fc_report' = Some(Report(NewManager(TRUE), FALSE,
                                               "Failed to take screenshot"))
              ELSE /\ fc_calls' =
                         <<ShotCall>>
                         \o [i \in 1..last |-> FindAllCallOf(fc_valid[i])]
                         \o [i \in 1..Len(all_found) |-> TapCall(all_found[i])]
                   /\ fc_report' =
                         Some(IF all_found = <<>>
                              THEN NotFoundBranch(NewManager(TRUE), fc_step, "not found")
                              ELSE FoundBranch(NewManager(TRUE), fc_step))
    /\ fc_pc' = "done"
    /\ UNCHANGED <<fc_step, fc_files, fc_timeout, fc_appears, fc_valid, fc_index,
                   fc_result, exceptFindAndClick>>

\* somebody removes a template file while the handler is at work
FileVanishes ==
    /\ fc_pc \in {"wait", "click_all"}
    /\ \E name \in fc_files : fc_files' = fc_files \ {name}
    /\ UNCHANGED <<fc_step, fc_timeout, fc_appears, fc_pc, fc_valid, fc_index,
                   fc_result, fc_calls, fc_report, exceptFindAndClick>>

NextFindAndClick ==
    \/ ResolveTemplates
    \/ WaitForCandidate
    \/ ClickResult
    \/ ClickAllOccurrences
    \/ FileVanishes

SpecFindAndClick == InitFindAndClick /\ [][NextFindAndClick]_vars

(***************************************************************************)
(* C21.  In single mode every wait_for_template call gets an even share of *)
(* the step's timeout, so that the shares of the resolved templates sum to *)
(* the step's timeout; the templates are waited for in list order up to    *)
(* the first that is found, and one tap is issued, at the point found.     *)
(***************************************************************************)
\* the calls of a single-mode search that returned, every wait with timeout
\* t; a template is found when its file is still there and it is on screen
SingleCalls(t) ==
    LET n == Len(fc_valid)
        hit(i) == fc_valid[i] \in fc_files /\ fc_appears[fc_valid[i]] # None
        last == IF \E i \in 1..n : hit(i)
                THEN CHOOSE i \in 1..n : hit(i) /\ \A j \in 1..(i - 1) : ~hit(j)
                ELSE n
    IN  [i \in 1..last |-> WaitForCall(fc_valid[i], t)]
        \o (IF hit(last) THEN <<TapCall(fc_appears[fc_valid[last]][1])>> ELSE <<>>)

SingleOver == fc_pc = "done" /\ fc_valid # <<>> /\ ~fc_step.click_all

Unresolved == fc_pc = "done" /\ TemplateList(fc_step) # <<>> /\ fc_valid = <<>>

C22_UnresolvedBranch ==
    Unresolved =>
        LET r == fc_report[1]
            goto == fc_step.goto_step_if_not_found
        IN  /\ fc_calls = <<>>
            /\ IF goto # None
               THEN r.ok /\ r.self.next_step_index = goto
               ELSE IF fc_step.continue_if_not_found
               THEN r.ok /\ r.self.next_step_index = None
               ELSE ~r.ok /\ r.self.next_step_index = None

(***************************************************************************)
(* C27.  A template file that is removed after the handler resolved it     *)
(* counts as not found: when no template whose file is left is on screen,  *)
(* the handler takes its not-found branch, although a removed template is  *)
(* on screen; it taps nothing and raises nothing.                          *)
(***************************************************************************)
Vanished == {i \in DOMAIN fc_valid : fc_valid[i] \notin fc_files}

C27_VanishedIsNotFound ==
    (/\ fc_pc = "done"
     /\ Vanished # {}
     /\ \A i \in DOMAIN fc_valid \ Vanished : fc_appears[fc_valid[i]] = None
     /\ fc_calls # <<[op |-> "screenshot", template |-> "", timeout |-> 0,
                      point |-> <<0, 0>>]>>) =>
        /\ fc_report[1].event = "not found"
        /\ ~fc_report[1].raised
        /\ \A i \in DOMAIN fc_calls : fc_calls[i].op # "click"
        /\ fc_report[1].self.next_step_index \in {None, fc_step.goto_step_if_not_found}

\* the only template of a click_all step is on screen, its file is gone
\* after the resolution, and the step goes to the step it names for that
C27_Witness ==
    /\ fc_pc = "done"
    /\ fc_step.click_all
    /\ fc_valid = <<"a.png">>
    /\ fc_files = {}
    /\ fc_appears["a.png"] = Some(P2)
    /\ fc_calls = <<ShotCall, FindAllCallOf("a.png")>>
    /\ fc_report[1].ok
    /\ fc_report[1].self.next_step_index = Some(1)

(***************************************************************************)
(* task/manager.py, _step_click and _step_swipe, on a controller that is   *)
(* bound or not and whose adb command succeeds, fails or raises.           *)
(***************************************************************************)
\* a coordinate key of a step: absent, 0, or another value
Coordinates == {None, Some(0), Some(7)}

ActionSteps ==
    {[NoActionStep EXCEPT !.x = x, !.y = y] : x, y \in Coordinates}
    \cup {[NoActionStep EXCEPT !.type = "swipe", !.x1 = x1, !.y1 = y1,
                               !.x2 = x2, !.y2 = y2] :
             x1, y1, x2, y2 \in Coordinates}

\* a controller after connect_to_device has bound it
BoundEmulator == [connected |-> TRUE, device_id |-> Some("emulator-5554")]

\* _step_swipe
StepSwipe(self, step, env) ==
    IF \E v \in {step.x1, step.y1, step.x2, step.y2} : v = None
    THEN Report(self, FALSE, "Swipe step missing coordinates")
    ELSE IF env.answer = "raise"
    THEN Raise(self)
    ELSE Report(self, TRUE, "swipe")

\* a call of the handler on self.emulator
ActionCall(op, args) == [op |-> op, args |-> args]

exceptAction == <<coreVars, guiVars, matcherVars, resolveVars, textVars, handoffVars, clickAllVars, findClickVars, waitForVars>>

InitAction ==
    /\ IdleInterpreter
    /\ IdleMatcher
    /\ IdleResolve
    /\ IdleText
    /\ IdleHandoff
    /\ IdleClickAll
    /\ IdleFindAndClick
    /\ IdleWaitFor
    /\ emulator \in {NewEmulator, BoundEmulator}
    /\ adb_calls = <<>>
    /\ emu_ret = [op |-> "__init__", ok |-> TRUE, value |-> None]
    /\ emu_args = <<>>
    /\ adb_out = [status |-> "ok", listing |-> <<>>, stdout |-> "", png |-> FALSE]
    /\ as_step \in ActionSteps
    /\ as_pc = "entry"
    /\ as_calls = <<>>
    /\ as_report = None

\* _step_click: the test of the coordinates, self.emulator.click(x, y), the
\* sleep, return True
HandleClick ==
    /\ as_pc = "entry"
    /\ as_step.type = "click"
    /\ LET r == StepClick(NewManager(TRUE), as_step, QuietEnv)
       IN  /\ as_report' = Some(r)
           /\ IF r.ok
              THEN LET x == as_step.x[1]
                       y == as_step.y[1]
                   IN  /\ as_calls' = <<ActionCall("click", <<x, y>>)>>
                       /\ \E status \in Statuses :
                             Returned(Click(emulator, x, y, status), <<x, y>>,
                                      AdbOut(status, <<>>, "", FALSE))
              ELSE UNCHANGED <<as_calls, emuVars>>
    /\ as_pc' = "done"
    /\ UNCHANGED <<as_step, exceptAction>>

\* _step_swipe: the test of the coordinates,
\* self.emulator.swipe(x1, y1, x2, y2, duration), the sleep, return True
HandleSwipe ==
    /\ as_pc = "entry"
    /\ as_step.type = "swipe"
    /\ LET r == StepSwipe(NewManager(TRUE), as_step, QuietEnv)
       IN  /\ as_report' = Some(r)
           /\ IF r.ok
              THEN LET args == <<as_step.x1[1], as_step.y1[1], as_step.x2[1],
                                 as_step.y2[1], 300>>
                   IN  /\ as_calls' = <<ActionCall("swipe", args)>>
                       /\ \E status \in Statuses :
                             Returned(Swipe(emulator, args[1], args[2], args[3],
                                            args[4], args[5], status),
                                      args, AdbOut(status, <<>>, "", FALSE))
              ELSE UNCHANGED <<as_calls, emuVars>>
    /\ as_pc' = "done"
    /\ UNCHANGED <<as_step, exceptAction>>

NextAction ==
    \/ HandleClick
    \/ HandleSwipe

SpecAction == InitAction /\ [][NextAction]_vars

(***************************************************************************)
(* C23.  A click step fails, with no tap, iff x or y is missing, a swipe   *)
(* step iff one of x1, y1, x2, y2 is missing; the value 0 is present.      *)
(* Otherwise the handler calls the controller's click (swipe) once and     *)
(* returns True, whatever the controller answers, bound or not.            *)
(***************************************************************************)
MissingCoordinate(step) ==
    IF step.type = "click"
    THEN step.x = None \/ step.y = None
    ELSE \E v \in {step.x1, step.y1, step.x2, step.y2} : v = None

C23_FailsIffCoordinateMissing ==
    as_pc = "done" =>
        /\ as_report[1].ok = ~MissingCoordinate(as_step)
        /\ ~as_report[1].raised
        /\ IF MissingCoordinate(as_step)
           THEN as_calls = <<>>
           ELSE /\ Len(as_calls) = 1
                /\ as_calls[1].op = as_step.type
                /\ as_calls[1].args =
                      IF as_step.type = "click"
                      THEN <<as_step.x[1], as_step.y[1]>>
                      ELSE <<as_step.x1[1], as_step.y1[1], as_step.x2[1],
                             as_step.y2[1], 300>>

\* a click at x = 0 on an unbound controller: the controller refuses, the
\* step succeeds
C23_Witness ==
    /\ as_pc = "done"
    /\ as_step.type = "click" /\ as_step.x = Some(0) /\ as_step.y = Some(7)
    /\ ~emulator.connected
    /\ emu_ret = [op |-> "click", ok |-> FALSE, value |-> None]
    /\ as_calls = <<ActionCall("click", <<0, 7>>)>>
    /\ as_report[1].ok

(***************************************************************************)
(* recognition/matcher.py, wait_for_template.  Time is counted in ticks of *)
(* 1 / TicksPerSecond seconds; the interval is the default, 0.5 s.         *)
(***************************************************************************)
Interval == TicksPerSecond \div 2

\* a failed capture goes to the match like any other
AfterCaptureMatchesAnyway(shot) == "match"

\* a capture that fails is not followed by a sleep
AfterCaptureSpin(shot) == IF shot THEN "match" ELSE "test"

\* if screenshot: ... ; time.sleep(interval)
AfterCapture(shot) == IF shot THEN "match" ELSE "sleep"

\* an entry of the log: the operation and, for a match attempt, its result
WfDid(op, value) == [op |-> op, value |-> value]

exceptWaitFor == <<coreVars, guiVars, matcherVars, emuVars, resolveVars, textVars, handoffVars, clickAllVars, findClickVars, actionVars>>

InitWaitFor ==
    /\ IdleInterpreter
    /\ IdleMatcher
    /\ IdleEmulator
    /\ IdleResolve
    /\ IdleText
    /\ IdleHandoff
    /\ IdleClickAll
    /\ IdleFindAndClick
    /\ IdleAction
    /\ wf_timeout \in -1..MaxTimeout
    /\ wf_now = 0
    /\ wf_pc = "test"
    /\ wf_log = <<>>
    /\ wf_result = None

\* while time.time() - start_time < timeout, and the return None after it
LoopTest ==
    /\ wf_pc = "test"
    /\ IF wf_now < TicksPerSecond * wf_timeout
       THEN /\ wf_pc' = "capture"
            /\ UNCHANGED wf_result
       ELSE /\ wf_pc' = "done"
            /\ wf_result' = Some(None)
    /\ UNCHANGED <<wf_timeout, wf_now, wf_log, exceptWaitFor>>

\* screenshot = screenshot_func(): it takes some time and may return None
LoopCapture ==
    /\ wf_pc = "capture"
    /\ \E took \in 0..1, shot \in BOOLEAN :
          /\ wf_now' = wf_now + took
          /\ wf_pc' = AfterCapture(shot)
          /\ wf_log' = Append(wf_log, WfDid("capture", IF shot THEN Some(P2) ELSE None))
    /\ UNCHANGED <<wf_timeout, wf_result, exceptWaitFor>>

\* result = self.find_template(...); if result: return result
LoopMatch ==
    /\ wf_pc = "match"
    /\ \E result \in {None, Some(P1), Some(P2)} :
          /\ wf_log' = Append(wf_log, WfDid("match", result))
          /\ IF result # None
             THEN /\ wf_pc' = "done"
                  /\ wf_result' = Some(result)
             ELSE /\ wf_pc' = "sleep"
                  /\ UNCHANGED wf_result
    /\ UNCHANGED <<wf_timeout, wf_now, exceptWaitFor>>

\* time.sleep(interval): the interval, or longer
LoopSleep ==
    /\ wf_pc = "sleep"
    /\ \E slept \in Interval..(Interval + 1) :
          wf_now' = wf_now + slept
    /\ wf_log' = Append(wf_log, WfDid("sleep", None))
    /\ wf_pc' = "test"
    /\ UNCHANGED <<wf_timeout, wf_result, exceptWaitFor>>

NextWaitFor ==
    \/ LoopTest
    \/ LoopCapture
    \/ LoopMatch
    \/ LoopSleep

\* the call runs on: a thread that can take a step takes it
SpecWaitFor == InitWaitFor /\ [][NextWaitFor]_vars /\ WF_vars(NextWaitFor)

(***************************************************************************)
(* C24.  wait_for_template ends, with the first match it found or with     *)
(* None once the timeout has passed, and does not spin: every turn of the  *)
(* loop is one capture, one match attempt and one sleep, in that order;    *)
(* with a timeout of 0 or less nothing is captured.                        *)
(***************************************************************************)
Ops(log) == [i \in 1..Len(log) |-> log[i].op]

\* the turns of the loop that ran to their end, as the claim has them
RECURSIVE CaptureMatchSleep(_)
CaptureMatchSleep(ops) ==
    IF ops = <<>>
    THEN TRUE
    ELSE /\ Len(ops) >= 3
         /\ SubSeq(ops, 1, 3) = <<"capture", "match", "sleep">>
         /\ CaptureMatchSleep(SubSeq(ops, 4, Len(ops)))

\* as the claim has it: whenever the loop is back at its test, it has done
\* capture, match, sleep, over and over
C24_CaptureMatchSleep ==
    wf_pc = "test" => CaptureMatchSleep(Ops(wf_log))

\* the turns as the code has them: a capture; a match attempt if the capture
\* gave a frame; a sleep unless the attempt found the template
RECURSIVE Turns(_)
Turns(log) ==
    IF log = <<>>
    THEN TRUE
    ELSE /\ log[1].op = "capture"
         /\ Len(log) >= 2
         /\ IF log[1].value = None
            THEN /\ log[2].op = "sleep"
                 /\ Turns(SubSeq(log, 3, Len(log)))
            ELSE /\ log[2].op = "match"
                 /\ IF log[2].value # None
                    THEN Len(log) = 2
                    ELSE /\ Len(log) >= 3
                         /\ log[3].op = "sleep"
                         /\ Turns(SubSeq(log, 4, Len(log)))

Found(log) == {i \in 1..Len(log) : log[i].op = "match" /\ log[i].value # None}

WaitForShape ==
    /\ wf_pc \in {"test", "done"} => Turns(wf_log)
    /\ wf_timeout <= 0 => wf_log = <<>>
    /\ wf_pc = "done" =>
          IF Found(wf_log) = {}
          THEN /\ wf_result = Some(None)
               /\ wf_now >= TicksPerSecond * wf_timeout
          ELSE /\ Found(wf_log) = {Len(wf_log)}
               /\ wf_result = Some(wf_log[Len(wf_log)].value)
    /\ wf_pc # "done" => Found(wf_log) = {}

C24_PollsThenEnds ==
    /\ []WaitForShape
    /\ <>(wf_pc = "done")

\* a capture that failed, a sleep, then a capture and the match that ends
\* the call
C24_Witness ==
    /\ wf_pc = "done"
    /\ Ops(wf_log) = <<"capture", "sleep", "capture", "match">>
    /\ wf_result = Some(Some(P1))

(***************************************************************************)
(* emulator/controller.py, connect: the adb version check, the ldplayer    *)
(* branch, the listing, and the probing of the local ports.                *)
(***************************************************************************)
EmulatorTypes == {"auto", "ldplayer", "nox"}

\* the ports connect probes in the reverse order
AutoPortsReversed == <<5575, 5565, 5557, 5555>>

\* for port in [5555, 5557, 5565, 5575]
AutoPorts == <<5555, 5557, 5565, 5575>>

\* common_ports of _connect_ldplayer
LdPlayerPorts == <<5555, 5557, 5565, 5575, 5585>>

\* f"127.0.0.1:{port}"
PortAddress(port) ==
    CASE port = 5555 -> "127.0.0.1:5555"
      [] port = 5557 -> "127.0.0.1:5557"
      [] port = 5565 -> "127.0.0.1:5565"
      [] port = 5575 -> "127.0.0.1:5575"
      [] port = 5585 -> "127.0.0.1:5585"

\* 'device' in line and f":{port}" in line
YieldsPort(port, line) ==
    /\ line.state = "device" \/ line.id = "device01"
    /\ line.id = PortAddress(port)

\* what `adb devices` may print when connect lists the devices
ConnectListings ==
    {<<>>,
     <<[id |-> "emulator-5554", state |-> "offline"]>>,
     <<[id |-> "emulator-5554", state |-> "device"]>>,
     <<[id |-> "device01", state |-> "offline"],
       [id |-> "127.0.0.1:5555", state |-> "device"]>>}

\* what a probe of a port meets: `adb connect` raises, or `adb devices`
\* prints a listing
ProbeAnswers ==
    {[status |-> "raise", listing |-> <<>>]}
    \cup {[status |-> "ok", listing |-> l] :
             l \in {<<>>,
                    <<[id |-> "127.0.0.1:5557", state |-> "device"]>>,
                    <<[id |-> "127.0.0.1:5557", state |-> "offline"],
                      [id |-> "127.0.0.1:5575", state |-> "device"]>>}}

\* _try_connect_port
TryConnectPort(self, port, answer) ==
    LET address == PortAddress(port)
        OfPort(line) == YieldsPort(port, line)
        devices == SelectSeq(answer.listing, OfPort)
    IN  IF answer.status = "raise"
        THEN [self |-> self, ok |-> FALSE, calls |-> <<<<"connect", address>>>>]
        ELSE IF devices # <<>>
        THEN [self |-> [self EXCEPT !.device_id = Some(devices[1].id),
                                    !.connected = TRUE],
              ok |-> TRUE, calls |-> <<<<"connect", address>>, <<"devices">>>>]
        ELSE [self |-> self, ok |-> FALSE,
              calls |-> <<<<"connect", address>>, <<"devices">>>>]

\* for port in ports: if self._try_connect_port(port): return True
RECURSIVE TryPorts(_, _, _)
TryPorts(self, ports, answers) ==
    IF ports = <<>>
    THEN [self |-> self, ok |-> FALSE, calls |-> <<>>]
    ELSE LET first == TryConnectPort(self, Head(ports), Head(answers))
         IN  IF first.ok
             THEN first
             ELSE LET rest == TryPorts(self, Tail(ports), Tail(answers))
                  IN  [rest EXCEPT !.calls = first.calls \o rest.calls]

\* connect
Connect(self, type, version, status, listing, answers) ==
    IF version # "ok"
    THEN Outcome(self, "connect", FALSE, None, <<<<"version">>>>)
    ELSE IF type = "ldplayer"
    THEN LET r == TryPorts(self, LdPlayerPorts, answers)
         IN  Outcome(r.self, "connect", r.ok, None, <<<<"version">>>> \o r.calls)
    ELSE IF status = "raise"
    THEN Outcome(self, "connect", FALSE, None, <<<<"version">>, <<"devices">>>>)
    ELSE LET devices == ParseDevices(listing)
         IN  IF devices = <<>>
             THEN IF type = "auto"
                  THEN LET r == TryPorts(self, AutoPorts, answers)
                       IN  Outcome(r.self, "connect", r.ok, None,
                                   <<<<"version">>, <<"devices">>>> \o r.calls)
                  ELSE Outcome(self, "connect", FALSE, None,
                               <<<<"version">>, <<"devices">>>>)
             ELSE Outcome([self EXCEPT !.device_id = Some(devices[1]),
                                       !.connected = TRUE],
                          "connect", TRUE, None, <<<<"version">>, <<"devices">>>>)

\* the ports connect goes through, given what it has met so far
PortsToProbe(type, version, status, listing) ==
    IF version # "ok" THEN <<>>
    ELSE IF type = "ldplayer" THEN LdPlayerPorts
    ELSE IF type = "auto" /\ status # "raise" /\ ParseDevices(listing) = <<>>
    THEN AutoPorts
    ELSE <<>>

InitConnect ==
    /\ IdleInterpreter
    /\ IdleMatcher
    /\ IdleResolve
    /\ IdleText
    /\ IdleHandoff
    /\ IdleClickAll
    /\ IdleFindAndClick
    /\ IdleAction
    /\ IdleWaitFor
    /\ emulator \in {NewEmulator, BoundEmulator}
    /\ adb_calls = <<>>
    /\ emu_ret = [op |-> "__init__", ok |-> TRUE, value |-> None]
    /\ emu_args = <<>>
    /\ adb_out = [status |-> "ok", listing |-> <<>>, stdout |-> "", png |-> FALSE]

\* the first connect() on a controller
CallConnect ==
    /\ emu_ret.op = "__init__"
    /\ \E type \in EmulatorTypes, version \in Statuses, status \in {"ok", "raise"},
          listing \in ConnectListings :
          \E answers \in [DOMAIN PortsToProbe(type, version, status, listing)
                             -> ProbeAnswers] :
              Returned(Connect(emulator, type, version, status, listing, answers),
                       <<type, version, answers>>,
                       AdbOut(status, listing, "", FALSE))
    /\ UNCHANGED exceptEmulator

NextConnect == CallConnect

SpecConnect == InitConnect /\ [][NextConnect]_vars

(***************************************************************************)
(* C25.  connect(): a non-empty enumeration binds the controller to its    *)
(* first endpoint; an empty one, with the type auto, has the ports 5555,   *)
(* 5557, 5565, 5575 probed in that order, the first port that yields an    *)
(* endpoint bound and no later port probed; if no port yields one, connect *)
(* fails and binds nothing.  connect returns True iff it bound the         *)
(* controller in this call.                                                *)
(***************************************************************************)
\* the addresses of the `adb connect` commands among the calls, in order
Probed(calls) ==
    LET connects == SelectSeq(calls, LAMBDA c : c[1] = "connect")
    IN  [i \in DOMAIN connects |-> connects[i][2]]

\* the endpoints a probe of the i-th port yields: those enumerated after it
\* at the address of the port
Yielded(i, answers) ==
    LET enumerated == ListAllDevices("ok", answers[i].listing)
    IN  {enumerated[j] : j \in DOMAIN enumerated}
    \cap (IF answers[i].status = "raise" THEN {}
          ELSE {<<"127.0.0.1:5555", "127.0.0.1:5557", "127.0.0.1:5565",
                  "127.0.0.1:5575">>[i]})

\* the claim, for the calls that read an enumeration, of the types in `types`
ConnectAsClaimed(types) ==
    (emu_ret'.op = "connect" /\ emu_args'[1] \in types
        /\ emu_args'[2] = "ok" /\ adb_out'.status = "ok") =>
        LET enumerated == ListAllDevices("ok", adb_out'.listing)
            answers == emu_args'[3]
            yielding == {i \in DOMAIN answers : Yielded(i, answers) # {}}
        IN  /\ enumerated # <<>> =>
                /\ emu_ret'.ok
                /\ emulator' = [connected |-> TRUE, device_id |-> Some(enumerated[1])]
                /\ Probed(adb_calls') = <<>>
            /\ (enumerated = <<>> /\ emu_args'[1] = "auto") =>
                IF yielding = {}
                THEN /\ ~emu_ret'.ok
                     /\ emulator' = emulator
                     /\ Probed(adb_calls') =
                           <<"127.0.0.1:5555", "127.0.0.1:5557", "127.0.0.1:5565",
                             "127.0.0.1:5575">>
                ELSE LET k == CHOOSE i \in yielding : \A j \in yielding : i <= j
                     IN  /\ emu_ret'.ok
                         /\ emulator'.connected
                         /\ emulator'.device_id \in {Some(id) : id \in Yielded(k, answers)}
                         /\ Probed(adb_calls') =
                               SubSeq(<<"127.0.0.1:5555", "127.0.0.1:5557",
                                        "127.0.0.1:5565", "127.0.0.1:5575">>, 1, k)

\* True iff bound in this call: a True leaves the controller bound, a False
\* leaves it as it was
TrueIffBound ==
    emu_ret'.op = "connect" =>
        IF emu_ret'.ok
        THEN emulator'.connected /\ emulator'.device_id # None
        ELSE emulator' = emulator

\* as the claim has it: whatever the type of the controller
C25_FirstEnumeratedOrFirstPort ==
    [][ConnectAsClaimed(EmulatorTypes) /\ TrueIffBound]_vars

\* for the types other than ldplayer, which the claim's first part holds of
C25_UnlessLdPlayer ==
    [][ConnectAsClaimed(EmulatorTypes \ {"ldplayer"}) /\ TrueIffBound]_vars

\* type auto, nothing enumerated, 5555 yields nothing, 5557 yields an
\* endpoint: bound to it, and 5565 and 5575 not probed
C25_Witness ==
    /\ emu_ret = [op |-> "connect", ok |-> TRUE, value |-> None]
    /\ emu_args[1] = "auto"
    /\ ListAllDevices("ok", adb_out.listing) = <<>>
    /\ emulator = [connected |-> TRUE, device_id |-> Some("127.0.0.1:5557")]
    /\ Probed(adb_calls) = <<"127.0.0.1:5555", "127.0.0.1:5557">>

(***************************************************************************)
(* C30.  When a find_and_click step has found a template and tapped, in    *)
(* either mode, it returns True, and with goto_step_if_found set it has    *)
(* scheduled that jump, all the taps being issued by then; with            *)
(* goto_step_if_found unset it has scheduled no jump, so that the cursor   *)
(* goes on by one, whatever goto_step_if_not_found is.                     *)
(***************************************************************************)
C30_FoundJumpScheduled ==
    (fc_pc = "done" /\ fc_report[1].event = "found") =>
        LET r == fc_report[1]
            taps == SelectSeq(fc_calls, LAMBDA c : c.op = "click")
        IN  /\ r.ok
            /\ taps # <<>>
            /\ fc_calls[Len(fc_calls)].op = "click"
            /\ fc_step.click_all =>
                  \E i \in DOMAIN fc_valid :
                      Len(taps) = Len(AllFoundAt(fc_valid[i], fc_files, fc_appears))
            /\ IF fc_step.goto_step_if_found # None
               THEN r.self.next_step_index = fc_step.goto_step_if_found
               ELSE /\ r.self.next_step_index = None
                    /\ NextCursor(1, r.self.next_step_index, MaxSteps) = 2

(***************************************************************************)
(* C31.  run_task returns True whenever its loop is left with no failure   *)
(* of a required step and no exception, and False otherwise; so it returns *)
(* True for a run that stop() cut short and for a run whose notification   *)
(* step with required=false was answered with stop, the cursor still       *)
(* within the steps.                                                       *)
(***************************************************************************)
C31_TrueUnlessRequiredFailure ==
    RunOver(Main) =>
        (ret[Main] <=>
            \A i \in Ended(Main) :
                /\ ~results[Main][i].raised
                /\ Failed(Main, i) => ~Required(VisitedStep(Main, i)))

\* a notification step with required=false was answered with stop; run_task
\* returned True with a step left to run
C31_Witness ==
    /\ RunOver(Main)
    /\ ret[Main]
    /\ step_index[Main] <= Len(steps)
    /\ LastEnded(Main)
    /\ LastStep(Main).type = "notification"
    /\ LastResult(Main).event = "stop"
    /\ stopped_at[Main] = None
(***************************************************************************)
(* C32.  A stop() that takes effect before run_task has reset its flags -  *)
(* between two runs, or after the task lookup - is lost: the reset leaves  *)
(* running True whatever stop() did before, and the loop then dispatches   *)
(* its steps by the cursor and running alone.                              *)
(***************************************************************************)
C32_StopBeforeResetIsLost ==
    [][LET self == managers[self_tm[Main]]
       IN  /\ (pc[Main] = "entered" /\ pc'[Main] # "entered") =>
                  /\ pc'[Main] = "loop"
                  /\ managers'[self_tm[Main]].running
                  /\ step_index'[Main] = 1
           /\ (pc[Main] = "loop" /\ pc'[Main] # "loop") =>
                  (pc'[Main] = "exec" <=>
                      (self.running /\ step_index[Main] <= Len(steps)))]_vars

\* stop() was called after the task lookup and before the reset, and the
\* run went through all its steps and returned True
C32_Witness ==
    /\ RunOver(Main)
    /\ stopped_at[Main] = Some(0)
    /\ Len(steps) >= 2
    /\ Len(visited[Main]) = Len(steps)
    /\ Ascending(Main)
    /\ ret[Main]
    /\ ~managers[self_tm[Main]].force_stop_task
(***************************************************************************)
(* C33.  When run_task has returned for a task that exists - completed,    *)
(* failed, stopped or after an exception - running is False.  Called with  *)
(* a task name that does not exist it returns False, leaves running,       *)
(* force_stop_task, next_step_index and current_task_name as they were,    *)
(* and invokes no handler.                                                 *)
(***************************************************************************)
C33_ReturnedMeansNotRunning ==
    /\ [](RunOver(Main) => ~managers[self_tm[Main]].running)
    /\ [][(/\ pc[Main] \in {"idle", "done"}
           /\ <<pc[Main], task_name[Main]>>' # <<pc[Main], task_name[Main]>>
           /\ task_name'[Main][1] \notin Tasks) =>
              /\ pc'[Main] = "done"
              /\ ~ret'[Main]
              /\ managers' = managers
              /\ visited'[Main] = <<>>]_vars

\* a run whose handler raised has returned False with running False, and a
\* call for a task that does not exist after it left the instance alone
C33_Witness ==
    /\ pc[Main] = "done"
    /\ task_name[Main] # None
    /\ task_name[Main][1] \notin Tasks
    /\ ~ret[Main]
    /\ visited[Main] = <<>>
    /\ managers[self_tm[Main]].current_task_name # None
    /\ managers[self_tm[Main]].current_task_name # task_name[Main]
    /\ managers[self_tm[Main]].force_stop_task
(***************************************************************************)
(* C34.  user_requested_stop is sticky within an instance: once a          *)
(* notification's stop answer set it, neither run_task, the stop_task      *)
(* step nor stop() clears it, so a later run on the instance ends with the *)
(* flag still set even when that run completed normally.                   *)
(***************************************************************************)
C34_UserStopIsSticky ==
    [][\A m \in Managers :
          managers[m].user_requested_stop => managers'[m].user_requested_stop]_vars

\* a run that completed normally, no stop answer in it, on an instance whose
\* flag an earlier run set
C34_Witness ==
    /\ RunOver(Main)
    /\ ret[Main]
    /\ LastEnded(Main)
    /\ Len(visited[Main]) = Len(steps)
    /\ \A i \in Ended(Main) : results[Main][i].event # "stop"
    /\ stopped_at[Main] = None
    /\ managers[self_tm[Main]].user_requested_stop
(***************************************************************************)
(* A controller over its life: connect, connect_to_device and a command,   *)
(* called again and again on the one instance, adb answering as it may.    *)
(***************************************************************************)
\* connect(), called on the controller as it is; every port it probes meets
\* the same answer
CallConnectAgain ==
    /\ \E type \in EmulatorTypes, version \in Statuses, status \in {"ok", "raise"},
          listing \in ConnectListings, answer \in ProbeAnswers :
          LET ports == PortsToProbe(type, version, status, listing)
              answers == [i \in DOMAIN ports |-> answer]
          IN  Returned(Connect(emulator, type, version, status, listing, answers),
                       <<type, version, answer>>,
                       AdbOut(status, listing, "", FALSE))
    /\ UNCHANGED exceptEmulator

NextSession ==
    \/ CallConnectAgain
    \/ CallConnectToDevice
    \/ CallClick

SpecSession == InitEmulator /\ [][NextSession]_vars

(***************************************************************************)
(* C35.  In every state of a controller, connected implies that device_id  *)
(* is set, and connected never goes from True to False: not when a later   *)
(* connect or connect_to_device returns False, not when the device no      *)
(* longer answers.                                                         *)
(***************************************************************************)
C35_ConnectedIsMonotonic ==
    /\ [](emulator.connected => emulator.device_id # None)
    /\ [][emulator.connected => emulator'.connected /\ emulator'.device_id # None]_vars

\* a bound controller on which a later connect() found nothing and returned
\* False
C35_Witness ==
    /\ emulator.connected
    /\ emulator.device_id # None
    /\ emu_ret.op = "connect"
    /\ ~emu_ret.ok
    /\ adb_out.listing = <<>>
(***************************************************************************)
(* task/manager.py, _step_find_and_click from the point where the modes    *)
(* part (line 275), with one resolved template: the click_all mode with    *)
(* its own capture, the single mode with the wait_for_template call run    *)
(* poll by poll, each poll's capture failing or not.  fc_appears is the    *)
(* screen the click_all capture meets; the single mode's polls meet what   *)
(* LoopMatch draws.                                                        *)
(***************************************************************************)
InitCapture ==
    /\ IdleInterpreter
    /\ IdleMatcher
    /\ IdleEmulator
    /\ IdleResolve
    /\ IdleText
    /\ IdleHandoff
    /\ IdleClickAll
    /\ IdleAction
    /\ fc_step \in {s \in FindAndClickSteps : s.templates = <<"a.png">>}
    /\ fc_files = TemplateNames
    /\ fc_timeout = 1
    /\ \E a \in {None, Some(P1), Some(P2)} :
          fc_appears = [n \in TemplateNames |->
                           IF n = "a.png" /\ fc_step.click_all THEN a ELSE None]
    /\ fc_pc = IF fc_step.click_all THEN "click_all" ELSE "wait"
    /\ fc_valid = <<"a.png">>
    /\ fc_index = 1
    /\ fc_result = None
    /\ fc_calls = <<>>
    /\ fc_report = None
    /\ wf_timeout = TimeoutPerTemplate(fc_timeout, Len(fc_valid)) \div TicksPerSecond
    /\ wf_now = 0
    /\ wf_pc = IF fc_step.click_all THEN "idle" ELSE "test"
    /\ wf_log = <<>>
    /\ wf_result = None

\* the single mode after wait_for_template has returned: the tap and the
\* found branch on a result, the not-found branch without one
AfterWait ==
    /\ fc_pc = "wait"
    /\ wf_pc = "done"
    /\ LET result == wf_result[1]
       IN  /\ fc_result' = result
           /\ fc_calls' =
                 <<WaitForCall(fc_valid[fc_index], TicksPerSecond * wf_timeout)>>
                 \o (IF result # None THEN <<TapCall(result[1])>> ELSE <<>>)
           /\ fc_report' =
                 Some(IF result # None
                      THEN FoundBranch(NewManager(TRUE), fc_step)
                      ELSE NotFoundBranch(NewManager(TRUE), fc_step, "not found"))
    /\ fc_pc' = "done"
    /\ UNCHANGED <<fc_step, fc_files, fc_timeout, fc_appears, fc_valid, fc_index,
                   exceptFindAndClick>>

NextCapture ==
    \/ ClickAllOccurrences
    \/ LoopTest
    \/ LoopCapture
    \/ LoopMatch
    \/ LoopSleep
    \/ AfterWait

SpecCapture == InitCapture /\ [][NextCapture]_vars

(***************************************************************************)
(* C36.  With click_all, a capture that fails makes the step report        *)
(* failure even when continue_if_not_found or goto_step_if_not_found is    *)
(* set: no jump is scheduled and nothing is tapped.  Without click_all,    *)
(* polls whose capture fails count as polls that found nothing, and a step *)
(* all of whose captures failed takes its not-found branch.                *)
(***************************************************************************)
\* the polls of the wait captured nothing, one poll or more
EveryCaptureFailed ==
    /\ \E i \in DOMAIN wf_log : wf_log[i].op = "capture"
    /\ \A i \in DOMAIN wf_log : wf_log[i].op = "capture" => wf_log[i].value = None

Taps == {i \in DOMAIN fc_calls : fc_calls[i].op = "click"}

C36_FailedCapture ==
    fc_pc = "done" =>
        LET report == fc_report[1]
            missing == fc_step.goto_step_if_not_found
        IN  /\ (fc_step.click_all /\ fc_calls = <<ShotCall>>) =>
                  /\ ~report.ok
                  /\ ~report.raised
                  /\ report.self.next_step_index = None
                  /\ Taps = {}
            /\ (~fc_step.click_all /\ EveryCaptureFailed) =>
                  /\ report.ok = (Truthy(missing) \/ fc_step.continue_if_not_found)
                  /\ report.self.next_step_index =
                        (IF Truthy(missing) THEN missing ELSE None)
                  /\ Taps = {}
                  /\ \A i \in DOMAIN wf_log : wf_log[i].op # "match"

\* click_all with both continue_if_not_found and goto_step_if_not_found set,
\* the template on the screen, and the capture failed
C36_Witness ==
    /\ fc_pc = "done"
    /\ fc_step.click_all
    /\ fc_step.continue_if_not_found
    /\ fc_step.goto_step_if_not_found = Some(1)
    /\ fc_appears["a.png"] # None
    /\ fc_calls = <<ShotCall>>
    /\ ~fc_report[1].ok
(***************************************************************************)
(* C37.  On the same frame, template and threshold, find_template returns  *)
(* a point iff find_all_templates returns a non-empty list: the two modes  *)
(* of find_and_click agree on whether the template is on the frame.        *)
(***************************************************************************)
C37_BestIffAll ==
    called = {"find_template", "find_all_templates"} =>
        (match_found # None <=> matches # <<>>)

\* both found it, and the best score of the frame is the threshold itself
C37_Witness ==
    /\ called = {"find_template", "find_all_templates"}
    /\ template # None
    /\ match_found # None
    /\ matches # <<>>
    /\ MaxVal(match_result) = threshold
    /\ \E p \in Positions : match_result[p] < threshold

(***************************************************************************)
(* The matcher on templates wide enough for the filter of                  *)
(* find_all_templates to drop a neighbour: min_distance is 2 or more, and  *)
(* the positions of the frame are 1 apart.                                 *)
(***************************************************************************)
WideShapes == ((MaxTemplate + 1)..(MaxTemplate + 2)) \X (1..2)

InitDedup ==
    /\ IdleInterpreter
    /\ IdleEmulator
    /\ IdleResolve
    /\ IdleText
    /\ IdleHandoff
    /\ IdleClickAll
    /\ IdleFindAndClick
    /\ IdleAction
    /\ IdleWaitFor
    /\ match_result \in [Positions -> 0..MaxScore]
    /\ template \in {Some(shape) : shape \in WideShapes}
    /\ threshold \in 1..MaxScore
    /\ match_found = None
    /\ matches = <<>>
    /\ called = {}

SpecDedup == InitDedup /\ [][NextMatcher]_vars

(***************************************************************************)
(* C38.  The filter of find_all_templates loses no object: every position  *)
(* whose score is at or above the threshold is returned, or lies closer    *)
(* than the minimum distance to a returned point whose score is greater    *)
(* than or equal to its own.                                               *)
(***************************************************************************)
C38_NoObjectLost ==
    ("find_all_templates" \in called /\ template # None) =>
        \A p \in Positions :
            match_result[p] >= threshold =>
                LET c == Center(p, template[1])
                    d == MinDistance(template[1])
                IN  \/ \E i \in DOMAIN matches : matches[i] = c
                    \/ \E i \in DOMAIN matches :
                          /\ Distance2(c, matches[i]) < d * d
                          /\ ScoreOf(matches[i]) >= match_result[p]

\* a position at or above the threshold that was not returned, next to one
\* that was returned and one, at the minimum distance from it, returned too
C38_Witness ==
    /\ "find_all_templates" \in called /\ template # None
    /\ \E p \in Positions :
          /\ match_result[p] >= threshold
          /\ \A i \in DOMAIN matches : matches[i] # Center(p, template[1])
    /\ \E i, j \in DOMAIN matches :
          /\ i # j
          /\ Distance2(matches[i], matches[j])
                = MinDistance(template[1]) * MinDistance(template[1])
(***************************************************************************)
(* C39.  At the jump check of run_task's loop, next_step_index is set only *)
(* if the step just executed was a find_and_click whose handler returned   *)
(* True: a handler that returns False, and the handler of every other step *)
(* type (an unknown type, which fails, included), leaves it None.          *)
(***************************************************************************)
C39_JumpOnlyFromFindAndClickSuccess ==
    pc[Main] = "returned" =>
        (managers[self_tm[Main]].next_step_index # None =>
            /\ steps[step_index[Main]].type = "find_and_click"
            /\ ok[Main])

\* a step of a type the dispatch does not know has failed and stands at the
\* jump check without a jump, in a run where an earlier step scheduled one
C39_Witness ==
    /\ pc[Main] = "returned"
    /\ steps[step_index[Main]].type \notin
          {"click", "wait", "find_and_click", "notification", "stop_task"}
    /\ ~ok[Main]
    /\ managers[self_tm[Main]].next_step_index = None
    /\ ~Ascending(Main)

====
